---- MODULE Spec2Model ----
(***************************************************************************)
(* A model of mockfetch (src/src/index.ts, the current version at lines    *)
(* 378-750): the registry of fetch handlers, the configuration, the        *)
(* process-wide fetch binding and the intercepted fetch calls.             *)
(*                                                                         *)
(* Conventions.  An optional JavaScript value is a set with at most one    *)
(* element: {} is undefined, {v} is the value v.  A URL or a pattern text  *)
(* is the sequence of its path segments below one fixed origin; a segment  *)
(* that starts with ":" is a named group of the pattern.  An object with   *)
(* identity (a URLPattern, a Response) carries a reference number, so that *)
(* === on it is equality of the references.                                *)
(***************************************************************************)
EXTENDS Integers, Sequences, FiniteSets, TLC

VARIABLES fetchHandlers, configuration, globalFetch, ret, calls

vars == <<fetchHandlers, configuration, globalFetch, ret, calls>>

\* ------------------------------------------------------------------ bounds
MaxHandlers == 2
MaxFetchHandlers == 2
MaxCalls == 1
MaxResponseHandlers == 1
MaxCallbackHandlers == 1
MaxFlightHandlers == 1

\* ------------------------------------------------------------- url values
StringUrl(text) == [kind |-> "string", ref |-> 0, text |-> text]
PatternObject(ref, text) == [kind |-> "URLPattern", ref |-> ref, text |-> text]
MissingUrl == [kind |-> "undefined", ref |-> 0, text |-> <<>>]

UserSeven == <<"users", "7">>
UserEight == <<"users", "8">>
UserAny == <<"users", ":id">>
Ping == <<"ping">>
Malformed == <<"users", ":">>

GroupNames == {":id"}

\* ---------------------------------------------------------- method values
ToUpperCase(s) ==
  CASE s = "get" -> "GET"
    [] s = "Get" -> "GET"
    [] s = "post" -> "POST"
    [] s = "Post" -> "POST"
    [] OTHER -> s

\* normalizeMethod without the change of case
normalizeMethod_KeepsCase(method) ==
  IF method = {} \/ method = {""}
    THEN "GET"
    ELSE CHOOSE m \in method : TRUE

\* normalizeMethod: method ? method.toUpperCase() : 'GET'
normalizeMethod(method) ==
  IF method = {} \/ method = {""}
    THEN "GET"
    ELSE ToUpperCase(CHOOSE m \in method : TRUE)

\* ------------------------------------------------------------ URLPattern
\* new URLPattern(text) throws on a malformed template
PatternCompiles(text) == \A i \in 1..Len(text) : text[i] # ":"

\* URLPattern.exec(url): null (<<>>) or the result with its named groups
PatternExec(pattern, url) ==
  IF /\ Len(pattern) = Len(url)
     /\ \A i \in 1..Len(url) : pattern[i] \in GroupNames \/ pattern[i] = url[i]
    THEN << {<<pattern[i], url[i]>> : i \in {j \in 1..Len(url) : pattern[j] \in GroupNames}} >>
    ELSE << >>

\* ---------------------------------------------------------------- headers
\* String.prototype.toLowerCase on the header names in use
ToLowerCase(s) ==
  CASE s = "Content-Type" -> "content-type"
    [] s = "CONTENT-TYPE" -> "content-type"
    [] s = "X-Trace" -> "x-trace"
    [] OTHER -> s

\* a headers value: none, an object literal, an array of pairs or a Headers
\* instance; entries are <<name, value>> pairs in insertion order.  A
\* Headers instance keeps its names in lower case.
NoHeaders == [kind |-> "undefined", ref |-> 0, entries |-> << >>]
HeadersObject(ref, entries) == [kind |-> "object", ref |-> ref, entries |-> entries]
HeadersArray(ref, entries) == [kind |-> "array", ref |-> ref, entries |-> entries]
HeadersInstance(ref, entries) ==
  [kind |-> "Headers", ref |-> ref,
   entries |-> [i \in 1..Len(entries) |-> <<ToLowerCase(entries[i][1]), entries[i][2]>>]]

\* -------------------------------------------------------------- responses
\* every response value has a status, a body and headers; the body {} is no
\* body, otherwise the body is the name of its type; result is what a
\* response callback returns or throws
NoResponse ==
  [kind |-> "undefined", ref |-> 0, status |-> {}, body |-> {},
   headers |-> NoHeaders, result |-> << >>]
SimpleResponse(status) ==
  [kind |-> "simple", ref |-> 0, status |-> status, body |-> {},
   headers |-> NoHeaders, result |-> << >>]
ResponseObject(ref, status) ==
  [kind |-> "Response", ref |-> ref, status |-> {status}, body |-> {},
   headers |-> NoHeaders, result |-> << >>]
ResponseCallback(ref, status) ==
  [kind |-> "function", ref |-> ref, status |-> status, body |-> {},
   headers |-> NoHeaders, result |-> <<SimpleResponse(status)>>]

\* a simplified response with a body and headers
SimpleResponseWith(status, body, headers) ==
  [SimpleResponse(status) EXCEPT !.body = body, !.headers = headers]

\* a callback that returns the given value, and one that fails with the
\* error of the given reference: "thrown" in the call, "rejected" from the
\* promise it returned
CallbackReturning(ref, value) ==
  [ResponseCallback(ref, {}) EXCEPT !.result = <<value>>]
CallbackFailing(ref, how, error) ==
  [ResponseCallback(ref, {}) EXCEPT !.result = <<[kind |-> how, ref |-> error]>>]

\* ---------------------------------------------------------- configuration
\* the configuration as the earlier version of the module initialized it
InitialConfiguration_Earlier ==
  [handleUnmockedRequests |-> "throw-error",
   replaceMockedFetches |-> FALSE,
   responseDelay |-> 0,
   autoReplaceFetch |-> TRUE,
   logging |-> TRUE]

\* const configuration: FetchConfiguration = { ... }
InitialConfiguration ==
  [handleUnmockedRequests |-> "throw-error",
   responseDelay |-> 0,
   autoReplaceFetch |-> TRUE,
   logging |-> TRUE]

\* ------------------------------------------------------- registry helpers
Thrown(message) == [threw |-> TRUE, error |-> message, value |-> << >>]
Returned(value) == [threw |-> FALSE, error |-> "", value |-> <<value>>]

\* normalizeSpecification accepting a specification without a url
normalizeSpecification_NoUrlCheck(specification) ==
  Returned([specification EXCEPT !.method = {normalizeMethod(@)}])

\* normalizeSpecification: throws without a url, writes the normalized
\* method into the specification and returns it
normalizeSpecification(specification) ==
  IF specification.url.kind = "undefined"
    THEN Thrown("Mocked fetch is missing \"url\"")
    ELSE Returned([specification EXCEPT !.method = {normalizeMethod(@)}])

\* normalizeHandler leaving the pattern to be compiled when a call is matched
normalizeHandler_CompilesLater(handler) ==
  LET normalized == normalizeSpecification(handler) IN
  IF normalized.threw THEN normalized
  ELSE IF handler.response.kind = "undefined"
    THEN Thrown("Mocked fetch is missing \"response\"")
  ELSE Returned([url |-> handler.url,
                 method |-> CHOOSE m \in normalized.value[1].method : TRUE,
                 responseDelay |-> handler.responseDelay,
                 response |-> handler.response,
                 pattern |-> handler.url.text])

\* normalizeHandler accepting a handler without a response
normalizeHandler_NoResponseCheck(handler) ==
  LET normalized == normalizeSpecification(handler) IN
  IF normalized.threw THEN normalized
  ELSE IF handler.url.kind = "string" /\ ~PatternCompiles(handler.url.text)
    THEN Thrown("Invalid URLPattern")
  ELSE Returned([url |-> handler.url,
                 method |-> CHOOSE m \in normalized.value[1].method : TRUE,
                 responseDelay |-> handler.responseDelay,
                 response |-> handler.response,
                 pattern |-> handler.url.text])

\* normalizeHandler: normalizeSpecification, then the response is required,
\* then the pattern is compiled (or taken over from a URLPattern instance)
normalizeHandler(handler) ==
  LET normalized == normalizeSpecification(handler) IN
  IF normalized.threw THEN normalized
  ELSE IF handler.response.kind = "undefined"
    THEN Thrown("Mocked fetch is missing \"response\"")
  ELSE IF handler.url.kind = "string" /\ ~PatternCompiles(handler.url.text)
    THEN Thrown("Invalid URLPattern")
  ELSE Returned([url |-> handler.url,
                 method |-> CHOOSE m \in normalized.value[1].method : TRUE,
                 responseDelay |-> handler.responseDelay,
                 response |-> handler.response,
                 pattern |-> handler.url.text])

\* === on url values: by value for strings, by reference for objects
StrictEquals(a, b) ==
  /\ a.kind = b.kind
  /\ IF a.kind = "string" THEN a.text = b.text ELSE a.ref = b.ref

RECURSIVE findFrom(_, _, _, _)
findFrom(handlers, i, url, method) ==
  IF i > Len(handlers) THEN 0
  ELSE IF StrictEquals(handlers[i].url, url) /\ handlers[i].method = method THEN i
  ELSE findFrom(handlers, i + 1, url, method)

RECURSIVE findLastFrom(_, _, _, _)
findLastFrom(handlers, i, url, method) ==
  IF i < 1 THEN 0
  ELSE IF StrictEquals(handlers[i].url, url) /\ handlers[i].method = method THEN i
  ELSE findLastFrom(handlers, i - 1, url, method)

\* findFetchHandler searching from the end of the registry
findFetchHandler_Last(handlers, url, method) ==
  findLastFrom(handlers, Len(handlers), url, method)

\* findFetchHandler: the index (from 1; 0 stands for -1) of the first
\* handler with the identical url and the same method
findFetchHandler(handlers, url, method) == findFrom(handlers, 1, url, method)

RECURSIVE matchFrom(_, _, _, _)
matchFrom(handlers, i, url, method) ==
  IF i > Len(handlers) THEN [index |-> 0, match |-> << >>]
  ELSE IF handlers[i].method # method THEN matchFrom(handlers, i + 1, url, method)
  ELSE IF PatternExec(handlers[i].pattern, url) # << >>
    THEN [index |-> i, match |-> PatternExec(handlers[i].pattern, url)]
  ELSE matchFrom(handlers, i + 1, url, method)

RECURSIVE matchLastFrom(_, _, _, _)
matchLastFrom(handlers, i, url, method) ==
  IF i < 1 THEN [index |-> 0, match |-> << >>]
  ELSE IF handlers[i].method # method THEN matchLastFrom(handlers, i - 1, url, method)
  ELSE IF PatternExec(handlers[i].pattern, url) # << >>
    THEN [index |-> i, match |-> PatternExec(handlers[i].pattern, url)]
  ELSE matchLastFrom(handlers, i - 1, url, method)

\* matchFetchHandler preferring the handler registered last
matchFetchHandler_LastMatch(handlers, url, method) ==
  matchLastFrom(handlers, Len(handlers), url, method)

\* matchFetchHandler: the first handler, in registration order, with the
\* request's method and a pattern that matches the url
matchFetchHandler(handlers, url, method) == matchFrom(handlers, 1, url, method)

\* fetchHandlers.splice(index, 1)
RemoveAt(s, i) == SubSeq(s, 1, i - 1) \o SubSeq(s, i + 1, Len(s))

\* normalizeRequestURL: the url string of a string, a URL or a Request
normalizeRequestURL(urlOrRequest) == urlOrRequest.url

\* normalizeRequestOptions keeping the method as the caller wrote it
normalizeRequestOptions_KeepsCase(requestOptions) ==
  [requestOptions EXCEPT !.method = {normalizeMethod_KeepsCase(@)}]

\* normalizeRequestOptions: the options with the normalized method
normalizeRequestOptions(requestOptions) ==
  [requestOptions EXCEPT !.method = {normalizeMethod(@)}]

\* isFetchReplaced: globalThis.fetch === mockedFetch
isFetchReplaced == globalFetch = "mockedFetch"

\* includesMockedFetch asking whether a call to the url would be matched
includesMockedFetch_Matches(specification) ==
  LET normalized == normalizeSpecification(specification) IN
  IF normalized.threw THEN normalized
  ELSE Returned(matchFetchHandler(fetchHandlers, specification.url.text,
                  CHOOSE m \in normalized.value[1].method : TRUE).index >= 1)

\* includesMockedFetch as a function of the current registry
includesMockedFetch(specification) ==
  LET normalized == normalizeSpecification(specification) IN
  IF normalized.threw THEN normalized
  ELSE Returned(findFetchHandler(fetchHandlers, specification.url,
                  CHOOSE m \in normalized.value[1].method : TRUE) >= 1)

\* willMockFetch looking the url up by identity, as includesMockedFetch does
willMockFetch_ByIdentity(urlOrRequest, requestOptions) ==
  LET url == normalizeRequestURL(urlOrRequest)
      method == CHOOSE m \in normalizeRequestOptions(requestOptions).method : TRUE
  IN findFetchHandler(fetchHandlers, StringUrl(url), method) >= 1

\* willMockFetch as a function of the current registry
willMockFetch(urlOrRequest, requestOptions) ==
  LET url == normalizeRequestURL(urlOrRequest)
      method == CHOOSE m \in normalizeRequestOptions(requestOptions).method : TRUE
  IN matchFetchHandler(fetchHandlers, url, method).index >= 1

Bool(b) == IF b THEN "true" ELSE "false"

\* the outcome of the last completed operation: its name, whether it threw,
\* its value (or error message), the handler and response it carries, the
\* method and url a thrown error names, the arguments handed to the original
\* fetch, the console entries written, the object handed to the caller, how
\* long the call waited and the invocations of its response callback
Outcome(op, threw, value, handler, response, error, passed, log, object) ==
  [op |-> op, threw |-> threw, value |-> value,
   handler |-> handler, response |-> response,
   error |-> error, passed |-> passed, log |-> log, object |-> object,
   waited |-> << >>, invoked |-> << >>]

\* the outcome of an operation that names no request, calls no original
\* fetch, writes nothing to the console and hands out no object
Result(op, threw, value, handler, response) ==
  Outcome(op, threw, value, handler, response, << >>, << >>, << >>, << >>)

\* ---------------------------------------------------------------- actions
Init ==
  /\ fetchHandlers = << >>
  /\ configuration = InitialConfiguration
  /\ globalFetch = "originalFetch"
  /\ ret = Result("load", FALSE, "undefined", << >>, << >>)
  /\ calls = << >>

\* getFetchConfiguration handing out the live configuration object
GetFetchConfiguration_ReturnsLive ==
  /\ ret' = Outcome("getFetchConfiguration", FALSE, "configuration", << >>, << >>,
                    << >>, << >>, << >>,
                    <<[live |-> TRUE, fields |-> configuration]>>)
  /\ UNCHANGED <<fetchHandlers, configuration, globalFetch, calls>>

\* getFetchConfiguration(): { ...configuration }, a new object with the
\* fields of the configuration
GetFetchConfiguration ==
  /\ ret' = Outcome("getFetchConfiguration", FALSE, "configuration", << >>, << >>,
                    << >>, << >>, << >>,
                    <<[live |-> FALSE, fields |-> configuration]>>)
  /\ UNCHANGED <<fetchHandlers, configuration, globalFetch, calls>>

\* the caller assigns a field of the object getFetchConfiguration returned;
\* the assignment reaches the configuration only if that object is the
\* configuration itself
ModifyReturned(key, value) ==
  /\ ret.op \in {"getFetchConfiguration", "modifyReturned"}
  /\ ret.object # << >>
  /\ ret' = [ret EXCEPT !.op = "modifyReturned",
                        !.object = <<[@[1] EXCEPT !.fields[key] = value]>>]
  /\ configuration' = IF ret.object[1].live
                        THEN [configuration EXCEPT ![key] = value]
                        ELSE configuration
  /\ UNCHANGED <<fetchHandlers, globalFetch, calls>>

\* setFetchConfiguration checking handleUnmockedRequests after the other
\* fields have been assigned
SetFetchConfiguration_ValidatesLast(options) ==
  LET policy == options.handleUnmockedRequests
      invalid == /\ policy # {} /\ policy # {""}
                 /\ policy \cap {"pass-through", "return-404", "throw-error"} = {}
      afterPolicy == IF policy # {} /\ policy # {""}
                       THEN [configuration EXCEPT
                               !.handleUnmockedRequests = CHOOSE p \in policy : TRUE]
                       ELSE configuration
      afterDelay == IF \E d \in options.responseDelay : d >= 0
                      THEN [afterPolicy EXCEPT
                              !.responseDelay = CHOOSE d \in options.responseDelay : TRUE]
                      ELSE afterPolicy
      afterAuto == IF options.autoReplaceFetch \cap {"true", "false"} # {}
                     THEN [afterDelay EXCEPT
                             !.autoReplaceFetch = (options.autoReplaceFetch = {"true"})]
                     ELSE afterDelay
      afterLogging == IF options.logging \cap {"true", "false"} # {}
                        THEN [afterAuto EXCEPT !.logging = (options.logging = {"true"})]
                        ELSE afterAuto
  IN
  /\ IF invalid
       THEN /\ ret' = Result("setFetchConfiguration", TRUE,
                             "Invalid handleUnmockedRequests", << >>, << >>)
            /\ configuration' = [afterLogging EXCEPT !.handleUnmockedRequests =
                                    configuration.handleUnmockedRequests]
       ELSE /\ ret' = Result("setFetchConfiguration", FALSE, "undefined", << >>, << >>)
            /\ configuration' = afterLogging
  /\ UNCHANGED <<fetchHandlers, globalFetch, calls>>

\* setFetchConfiguration testing responseDelay for truthiness
SetFetchConfiguration_TruthyDelay(options) ==
  LET policy == options.handleUnmockedRequests
      invalid == /\ policy # {} /\ policy # {""}
                 /\ policy \cap {"pass-through", "return-404", "throw-error"} = {}
      afterPolicy == IF policy # {} /\ policy # {""}
                       THEN [configuration EXCEPT
                               !.handleUnmockedRequests = CHOOSE p \in policy : TRUE]
                       ELSE configuration
      afterDelay == IF \E d \in options.responseDelay : d # 0
                      THEN [afterPolicy EXCEPT
                              !.responseDelay = CHOOSE d \in options.responseDelay : TRUE]
                      ELSE afterPolicy
      afterAuto == IF options.autoReplaceFetch \cap {"true", "false"} # {}
                     THEN [afterDelay EXCEPT
                             !.autoReplaceFetch = (options.autoReplaceFetch = {"true"})]
                     ELSE afterDelay
      afterLogging == IF options.logging \cap {"true", "false"} # {}
                        THEN [afterAuto EXCEPT !.logging = (options.logging = {"true"})]
                        ELSE afterAuto
  IN
  /\ IF invalid
       THEN /\ ret' = Result("setFetchConfiguration", TRUE,
                             "Invalid handleUnmockedRequests", << >>, << >>)
            /\ UNCHANGED configuration
       ELSE /\ ret' = Result("setFetchConfiguration", FALSE, "undefined", << >>, << >>)
            /\ configuration' = afterLogging
  /\ UNCHANGED <<fetchHandlers, globalFetch, calls>>

\* setFetchConfiguration(options); a boolean option is "true" or "false",
\* any other string is a value of another type
SetFetchConfiguration(options) ==
  LET policy == options.handleUnmockedRequests
      invalid == /\ policy # {} /\ policy # {""}
                 /\ policy \cap {"pass-through", "return-404", "throw-error"} = {}
      afterPolicy == IF policy # {} /\ policy # {""}
                       THEN [configuration EXCEPT
                               !.handleUnmockedRequests = CHOOSE p \in policy : TRUE]
                       ELSE configuration
      afterDelay == IF \E d \in options.responseDelay : d >= 0
                      THEN [afterPolicy EXCEPT
                              !.responseDelay = CHOOSE d \in options.responseDelay : TRUE]
                      ELSE afterPolicy
      afterAuto == IF options.autoReplaceFetch \cap {"true", "false"} # {}
                     THEN [afterDelay EXCEPT
                             !.autoReplaceFetch = (options.autoReplaceFetch = {"true"})]
                     ELSE afterDelay
      afterLogging == IF options.logging \cap {"true", "false"} # {}
                        THEN [afterAuto EXCEPT !.logging = (options.logging = {"true"})]
                        ELSE afterAuto
  IN
  /\ IF invalid
       THEN /\ ret' = Result("setFetchConfiguration", TRUE,
                             "Invalid handleUnmockedRequests", << >>, << >>)
            /\ UNCHANGED configuration
       ELSE /\ ret' = Result("setFetchConfiguration", FALSE, "undefined", << >>, << >>)
            /\ configuration' = afterLogging
  /\ UNCHANGED <<fetchHandlers, globalFetch, calls>>

\* replaceFetch switching the binding back when it is already replaced
ReplaceFetch_Toggles ==
  /\ globalFetch' = IF isFetchReplaced THEN "originalFetch" ELSE "mockedFetch"
  /\ ret' = Result("replaceFetch", FALSE, "undefined", << >>, << >>)
  /\ UNCHANGED <<fetchHandlers, configuration, calls>>

\* replaceFetch(): void
ReplaceFetch ==
  /\ globalFetch' = "mockedFetch"
  /\ ret' = Result("replaceFetch", FALSE, "undefined", << >>, << >>)
  /\ UNCHANGED <<fetchHandlers, configuration, calls>>

\* restoreFetch(): void
RestoreFetch ==
  /\ globalFetch' = "originalFetch"
  /\ ret' = Result("restoreFetch", FALSE, "undefined", << >>, << >>)
  /\ UNCHANGED <<fetchHandlers, configuration, calls>>

\* isFetchReplaced(): boolean
IsFetchReplaced ==
  /\ ret' = Result("isFetchReplaced", FALSE, Bool(isFetchReplaced), << >>, << >>)
  /\ UNCHANGED <<fetchHandlers, configuration, globalFetch, calls>>

\* includesMockedFetch(specification): boolean
IncludesMockedFetch(specification) ==
  LET found == includesMockedFetch(specification) IN
  /\ ret' = IF found.threw
              THEN Result("includesMockedFetch", TRUE, found.error, << >>, << >>)
              ELSE Result("includesMockedFetch", FALSE, Bool(found.value[1]), << >>, << >>)
  /\ UNCHANGED <<fetchHandlers, configuration, globalFetch, calls>>

\* willMockFetch(urlOrRequest, requestOptions): boolean
WillMockFetch(urlOrRequest, requestOptions) ==
  /\ ret' = Result("willMockFetch", FALSE,
                   Bool(willMockFetch(urlOrRequest, requestOptions)), << >>, << >>)
  /\ UNCHANGED <<fetchHandlers, configuration, globalFetch, calls>>

\* mockFetch without the automatic replaceFetch
MockFetch_NeverReplaces(handler) ==
  LET normalized == normalizeHandler(handler) IN
  /\ IF normalized.threw
       THEN /\ ret' = Result("mockFetch", TRUE, normalized.error, << >>, << >>)
            /\ UNCHANGED fetchHandlers
       ELSE /\ fetchHandlers' = Append(fetchHandlers, normalized.value[1])
            /\ ret' = Result("mockFetch", FALSE, "handler", normalized.value, << >>)
  /\ UNCHANGED <<configuration, globalFetch, calls>>

\* mockFetch overwriting a registered entry of the same url and method
MockFetch_ReplacesExisting(handler) ==
  LET normalized == normalizeHandler(handler) IN
  /\ IF normalized.threw
       THEN /\ ret' = Result("mockFetch", TRUE, normalized.error, << >>, << >>)
            /\ UNCHANGED <<fetchHandlers, globalFetch>>
       ELSE LET index == findFetchHandler(fetchHandlers, handler.url,
                                          normalized.value[1].method) IN
            /\ fetchHandlers' = IF index >= 1
                                  THEN [fetchHandlers EXCEPT ![index] = normalized.value[1]]
                                  ELSE Append(fetchHandlers, normalized.value[1])
            /\ globalFetch' = IF configuration.autoReplaceFetch
                                THEN "mockedFetch" ELSE globalFetch
            /\ ret' = Result("mockFetch", FALSE, "handler", normalized.value, << >>)
  /\ UNCHANGED <<configuration, calls>>

\* mockFetch replacing the fetch only when it registers the first handler
MockFetch_ReplacesForFirst(handler) ==
  LET normalized == normalizeHandler(handler) IN
  /\ IF normalized.threw
       THEN /\ ret' = Result("mockFetch", TRUE, normalized.error, << >>, << >>)
            /\ UNCHANGED <<fetchHandlers, globalFetch>>
       ELSE /\ fetchHandlers' = Append(fetchHandlers, normalized.value[1])
            /\ globalFetch' = IF configuration.autoReplaceFetch /\ fetchHandlers = << >>
                                THEN "mockedFetch" ELSE globalFetch
            /\ ret' = Result("mockFetch", FALSE, "handler", normalized.value, << >>)
  /\ UNCHANGED <<configuration, calls>>

\* mockFetch(handler): the normalized handler is appended and returned
MockFetch(handler) ==
  LET normalized == normalizeHandler(handler) IN
  /\ IF normalized.threw
       THEN /\ ret' = Result("mockFetch", TRUE, normalized.error, << >>, << >>)
            /\ UNCHANGED <<fetchHandlers, globalFetch>>
       ELSE /\ fetchHandlers' = Append(fetchHandlers, normalized.value[1])
            /\ globalFetch' = IF configuration.autoReplaceFetch
                                THEN "mockedFetch" ELSE globalFetch
            /\ ret' = Result("mockFetch", FALSE, "handler", normalized.value, << >>)
  /\ UNCHANGED <<configuration, calls>>

\* unmockFetch restoring the fetch even when it found nothing to remove
UnmockFetch_RestoresAnyway(specification) ==
  LET normalized == normalizeSpecification(specification) IN
  /\ IF normalized.threw
       THEN /\ ret' = Result("unmockFetch", TRUE, normalized.error, << >>, << >>)
            /\ UNCHANGED <<fetchHandlers, globalFetch>>
       ELSE LET index == findFetchHandler(fetchHandlers, specification.url,
                           CHOOSE m \in normalized.value[1].method : TRUE) IN
            /\ ret' = Result("unmockFetch", FALSE, "undefined", << >>, << >>)
            /\ fetchHandlers' = IF index >= 1
                                  THEN RemoveAt(fetchHandlers, index)
                                  ELSE fetchHandlers
            /\ globalFetch' = IF configuration.autoReplaceFetch
                                THEN "originalFetch" ELSE globalFetch
  /\ UNCHANGED <<configuration, calls>>

\* unmockFetch removing every entry with the url and the method
UnmockFetch_RemovesAll(specification) ==
  LET normalized == normalizeSpecification(specification) IN
  /\ IF normalized.threw
       THEN /\ ret' = Result("unmockFetch", TRUE, normalized.error, << >>, << >>)
            /\ UNCHANGED <<fetchHandlers, globalFetch>>
       ELSE LET method == CHOOSE m \in normalized.value[1].method : TRUE
                index == findFetchHandler(fetchHandlers, specification.url, method)
                Other(handler) == ~(/\ StrictEquals(handler.url, specification.url)
                                    /\ handler.method = method)
            IN
            /\ ret' = Result("unmockFetch", FALSE, "undefined", << >>, << >>)
            /\ IF index >= 1
                 THEN /\ fetchHandlers' = SelectSeq(fetchHandlers, Other)
                      /\ globalFetch' = IF configuration.autoReplaceFetch
                                          THEN "originalFetch" ELSE globalFetch
                 ELSE UNCHANGED <<fetchHandlers, globalFetch>>
  /\ UNCHANGED <<configuration, calls>>

\* unmockFetch(specification): void
UnmockFetch(specification) ==
  LET normalized == normalizeSpecification(specification) IN
  /\ IF normalized.threw
       THEN /\ ret' = Result("unmockFetch", TRUE, normalized.error, << >>, << >>)
            /\ UNCHANGED <<fetchHandlers, globalFetch>>
       ELSE LET index == findFetchHandler(fetchHandlers, specification.url,
                           CHOOSE m \in normalized.value[1].method : TRUE) IN
            /\ ret' = Result("unmockFetch", FALSE, "undefined", << >>, << >>)
            /\ IF index >= 1
                 THEN /\ fetchHandlers' = RemoveAt(fetchHandlers, index)
                      /\ globalFetch' = IF configuration.autoReplaceFetch
                                          THEN "originalFetch" ELSE globalFetch
                 ELSE UNCHANGED <<fetchHandlers, globalFetch>>
  /\ UNCHANGED <<configuration, calls>>

\* unmockAllFetches restoring the fetch whatever autoReplaceFetch says
UnmockAllFetches_AlwaysRestores ==
  /\ fetchHandlers' = << >>
  /\ globalFetch' = "originalFetch"
  /\ ret' = Result("unmockAllFetches", FALSE, "undefined", << >>, << >>)
  /\ UNCHANGED <<configuration, calls>>

\* unmockAllFetches leaving the last registered handler in place
UnmockAllFetches_KeepsLast ==
  /\ fetchHandlers' = IF fetchHandlers = << >>
                        THEN << >> ELSE <<fetchHandlers[Len(fetchHandlers)]>>
  /\ globalFetch' = IF configuration.autoReplaceFetch
                      THEN "originalFetch" ELSE globalFetch
  /\ ret' = Result("unmockAllFetches", FALSE, "undefined", << >>, << >>)
  /\ UNCHANGED <<configuration, calls>>

\* unmockAllFetches(): void
UnmockAllFetches ==
  /\ fetchHandlers' = << >>
  /\ globalFetch' = IF configuration.autoReplaceFetch
                      THEN "originalFetch" ELSE globalFetch
  /\ ret' = Result("unmockAllFetches", FALSE, "undefined", << >>, << >>)
  /\ UNCHANGED <<configuration, calls>>

\* ------------------------------------------------------ intercepted calls
\* the types canConstructResponseWith tests the body against
SupportedBodyTypes ==
  {"ArrayBuffer", "Blob", "DataView", "File", "FormData", "URLSearchParams",
   "Int8Array", "Uint8Array", "Uint8ClampedArray", "Int16Array", "Uint16Array",
   "Int32Array", "Uint32Array", "Float32Array", "Float64Array",
   "BigInt64Array", "BigUint64Array", "ReadableStream"}

\* canConstructResponseWith: body == null, a string, or an instance of one
\* of the supported types
canConstructResponseWith(body) ==
  \/ body = {}
  \/ body = {"null"}
  \/ body = {"string"}
  \/ \E type \in SupportedBodyTypes : body = {type}

\* headers.get('Content-Type') != null on a Headers instance, the loop over
\* the names with toLowerCase() on an array or an object
hasContentType(headers) ==
  IF headers.kind = "Headers"
    THEN \E i \in 1..Len(headers.entries) :
           headers.entries[i][1] = ToLowerCase("Content-Type")
    ELSE \E i \in 1..Len(headers.entries) :
           ToLowerCase(headers.entries[i][1]) = "content-type"

\* optionallyAddJSONContentType comparing the names as they are written
optionallyAddJSONContentType_CaseSensitive(headers) ==
  IF headers.kind = "undefined"
    THEN HeadersObject(0, << <<"Content-Type", "application/json">> >>)
  ELSE IF \E i \in 1..Len(headers.entries) : headers.entries[i][1] = "Content-Type"
    THEN headers
  ELSE [headers EXCEPT !.entries =
          Append(@, <<IF headers.kind = "Headers"
                        THEN ToLowerCase("Content-Type") ELSE "Content-Type",
                      "application/json">>)]

\* optionallyAddJSONContentType: the headers of the response options after
\* the call; without headers a new object is assigned, otherwise the headers
\* value given (same reference) gets the entry unless it has a content type
optionallyAddJSONContentType(headers) ==
  IF headers.kind = "undefined"
    THEN HeadersObject(0, << <<"Content-Type", "application/json">> >>)
  ELSE IF hasContentType(headers)
    THEN headers
  ELSE [headers EXCEPT !.entries =
          Append(@, <<IF headers.kind = "Headers"
                        THEN ToLowerCase("Content-Type") ELSE "Content-Type",
                      "application/json">>)]

\* new Response(body, { status, headers }) with status 204 when none is given
ConstructResponse_DefaultsTo204(body, status, headers) ==
  [kind |-> "Response", ref |-> 0,
   status |-> {IF status = {} THEN 204 ELSE CHOOSE n \in status : TRUE},
   body |-> IF body = {"null"} THEN {} ELSE body,
   headers |-> HeadersInstance(0, headers.entries),
   result |-> << >>]

\* new Response(body, { status, headers }): status 200 when none is given,
\* no body for null, the headers copied into a Headers instance of its own
ConstructResponse(body, status, headers) ==
  [kind |-> "Response", ref |-> 0,
   status |-> {IF status = {} THEN 200 ELSE CHOOSE n \in status : TRUE},
   body |-> IF body = {"null"} THEN {} ELSE body,
   headers |-> HeadersInstance(0, headers.entries),
   result |-> << >>]

\* new Response(body, {status}): the status defaults to 200; a constructed
\* response is a fresh object (reference 0)
NewResponse(body, status) == ConstructResponse(body, status, NoHeaders)

\* the body and the headers handed to the Response constructor for a
\* simplified description: a body the constructor cannot take is replaced
\* by its JSON text and the content type is added to the headers
Serialized(response) ==
  IF canConstructResponseWith(response.body)
    THEN [body |-> response.body, headers |-> response.headers]
    ELSE [body |-> {"json"},
          headers |-> optionallyAddJSONContentType(response.headers)]

\* the tail of mockedFetch with a Response instance rebuilt
Synthesize_Rebuilds(response) ==
  LET serialized == Serialized(response) IN
  ConstructResponse(serialized.body, response.status, serialized.headers)

\* the tail of mockedFetch once the response value is known: a Response
\* instance is returned as it is, a simplified description is constructed
Synthesize(response) ==
  IF response.kind = "Response"
    THEN response
    ELSE LET serialized == Serialized(response) IN
         ConstructResponse(serialized.body, response.status, serialized.headers)

\* a handler after a call has synthesized the given static response: the
\* headers value is shared by reference, so an entry added to it shows in
\* every handler that holds the same headers value
Touched(handler, response) ==
  IF /\ response.kind = "simple"
     /\ response.headers.kind # "undefined"
     /\ handler.response.kind = "simple"
     /\ handler.response.headers.kind = response.headers.kind
     /\ handler.response.headers.ref = response.headers.ref
    THEN [handler EXCEPT !.response.headers = Serialized(response).headers]
    ELSE handler

\* the value a response callback returns, or the error it fails with
CallbackResult(callback) == callback.result[1]

\* handler.responseDelay || configuration.responseDelay
EffectiveDelay_ZeroIsUnset(handler) ==
  IF handler.responseDelay = {} \/ handler.responseDelay = {0}
    THEN configuration.responseDelay
    ELSE CHOOSE d \in handler.responseDelay : TRUE

\* handler.responseDelay ?? configuration.responseDelay
EffectiveDelay(handler) ==
  IF handler.responseDelay = {}
    THEN configuration.responseDelay
    ELSE CHOOSE d \in handler.responseDelay : TRUE

\* the switch on configuration.handleUnmockedRequests with 'return-404'
\* answering 200
handleUnmockedRequest_Answers200(urlOrRequest, requestOptions, method, url) ==
  CASE configuration.handleUnmockedRequests = "pass-through" ->
         Outcome("fetch", FALSE, "originalFetch", << >>, << >>, << >>,
                 <<[target |-> urlOrRequest, options |-> requestOptions]>>, << >>, << >>)
    [] configuration.handleUnmockedRequests = "throw-error" ->
         Outcome("fetch", TRUE, "Fetch not mocked", << >>, << >>,
                 <<[method |-> method, url |-> url]>>, << >>, << >>, << >>)
    [] configuration.handleUnmockedRequests = "return-404" ->
         Result("fetch", FALSE, "response", << >>, <<NewResponse({}, {})>>)

\* the switch on configuration.handleUnmockedRequests of a call no handler
\* matches; requestOptions are the options after normalizeRequestOptions.
\* The error is thrown outside the try block, so nothing is logged.
handleUnmockedRequest(urlOrRequest, requestOptions, method, url) ==
  CASE configuration.handleUnmockedRequests = "pass-through" ->
         Outcome("fetch", FALSE, "originalFetch", << >>, << >>, << >>,
                 <<[target |-> urlOrRequest, options |-> requestOptions]>>, << >>, << >>)
    [] configuration.handleUnmockedRequests = "throw-error" ->
         Outcome("fetch", TRUE, "Fetch not mocked", << >>, << >>,
                 <<[method |-> method, url |-> url]>>, << >>, << >>, << >>)
    [] configuration.handleUnmockedRequests = "return-404" ->
         Result("fetch", FALSE, "response", << >>, <<NewResponse({}, {404})>>)

\* console.info whatever the logging flag says
LogInfo_Always(call) ==
  <<[level |-> "info", method |-> call.method, url |-> call.url]>>

\* console.info(`MOCK ${method} ${url}`, request, response) under logging
LogInfo(call) ==
  IF configuration.logging
    THEN <<[level |-> "info", method |-> call.method, url |-> call.url]>>
    ELSE << >>

\* mockedFetch up to its first await: the method is normalized, the handler
\* is looked up, an unmatched call is settled by the policy, a matched call
\* starts its delay timer
Fetch(urlOrRequest, requestOptions) ==
  LET url == normalizeRequestURL(urlOrRequest)
      method == CHOOSE m \in normalizeRequestOptions(requestOptions).method : TRUE
      found == matchFetchHandler(fetchHandlers, url, method)
  IN
  /\ isFetchReplaced
  /\ IF found.index = 0
       THEN /\ ret' = handleUnmockedRequest(urlOrRequest,
                         normalizeRequestOptions(requestOptions), method, url)
            /\ UNCHANGED calls
       ELSE /\ calls' = Append(calls,
                          [url |-> url, method |-> method,
                           handler |-> fetchHandlers[found.index],
                           match |-> found.match,
                           delay |-> EffectiveDelay(fetchHandlers[found.index]),
                           waited |-> << >>,
                           invoked |-> << >>,
                           pc |-> "delay"])
            /\ ret' = Result("fetch", FALSE, "pending", << >>, << >>)
  /\ UNCHANGED <<fetchHandlers, configuration, globalFetch>>

\* console.error(`MOCK ${method}: ${url}`, error) under logging
LogError(call) ==
  IF configuration.logging
    THEN <<[level |-> "error", method |-> call.method, url |-> call.url]>>
    ELSE << >>

\* how long after its delay a timer may fire
Lateness == {0, 1}

\* the outcome of an intercepted call that has settled: what it resolved to
\* or was rejected with, and how long after the invocation its timer fired
Settled(call, threw, value, response, error, log) ==
  [Outcome("settle", threw, value, <<call.handler>>, response, error,
           << >>, log, << >>) EXCEPT !.waited = call.waited,
                                     !.invoked = call.invoked]

\* the call resolves with the response synthesized from the given value;
\* shared tells that the value is the handler's own response, whose headers
\* the registry and the other calls hold too
Resolve(i, call, value, shared) ==
  /\ ret' = Settled(call, FALSE, "response", <<Synthesize(value)>>, << >>,
                    LogInfo(call))
  /\ IF shared
       THEN /\ fetchHandlers' =
                 [k \in 1..Len(fetchHandlers) |-> Touched(fetchHandlers[k], value)]
            /\ calls' = RemoveAt(
                 [k \in 1..Len(calls) |->
                    [calls[k] EXCEPT !.handler = Touched(@, value)]], i)
       ELSE /\ UNCHANGED fetchHandlers
            /\ calls' = RemoveAt(calls, i)

\* the catch block answering by the unmocked-request policy
Reject_FallsBack(i, call, error) ==
  /\ ret' = [handleUnmockedRequest(call.url, [method |-> {call.method}],
                                   call.method, call.url)
               EXCEPT !.op = "settle", !.waited = call.waited]
  /\ calls' = RemoveAt(calls, i)
  /\ UNCHANGED fetchHandlers

\* the call is rejected with the error the callback failed with, which the
\* catch block logs and throws again
Reject(i, call, error) ==
  /\ ret' = Settled(call, TRUE, "callback error", << >>, <<error>>, LogError(call))
  /\ calls' = RemoveAt(calls, i)
  /\ UNCHANGED fetchHandlers

\* the options handed to the callback with a match computed anew from the
\* registry of the moment
matchOptions_Rematched(call) ==
  [match |-> matchFetchHandler(fetchHandlers, call.url, call.method).match,
   url |-> call.url]

\* the options handed to the response callback: the match the handler
\* lookup produced when the call was made, and the url of the call (of
\* which the query is a part)
matchOptions(call) == [match |-> call.match, url |-> call.url]

\* the call after response(request, matchOptions) has been invoked: which
\* function was called, with which options, and how long after the call
Invoking(call) ==
  [call EXCEPT !.invoked = Append(@, [callback |-> call.handler.response.ref,
                                      options |-> matchOptions(call),
                                      after |-> call.waited[1]])]

\* the timer of call i firing with the handler looked up anew in the
\* registry of the moment
TimerFires_Rematches(i) ==
  /\ i \in 1..Len(calls)
  /\ calls[i].pc = "delay"
  /\ \E late \in Lateness :
       LET found == matchFetchHandler(fetchHandlers, calls[i].url, calls[i].method)
           call == [calls[i] EXCEPT !.waited = <<calls[i].delay + late>>,
                                    !.handler = IF found.index >= 1
                                                  THEN fetchHandlers[found.index] ELSE @]
       IN
       IF call.handler.response.kind = "function"
         THEN IF CallbackResult(call.handler.response).kind = "thrown"
                THEN Reject(i, Invoking(call), CallbackResult(call.handler.response))
                ELSE /\ calls' = [calls EXCEPT
                                    ![i] = [Invoking(call) EXCEPT !.pc = "callback"]]
                     /\ ret' = [Result("callback", FALSE, "pending",
                                       <<call.handler>>, << >>)
                                  EXCEPT !.invoked = Invoking(call).invoked]
                     /\ UNCHANGED fetchHandlers
         ELSE Resolve(i, call, call.handler.response, TRUE)
  /\ UNCHANGED <<configuration, globalFetch>>

\* the delay timer of call i fires, no earlier than the delay asked for: a
\* response callback is invoked and, unless it throws, awaited; any other
\* response settles the call at once
TimerFires(i) ==
  /\ i \in 1..Len(calls)
  /\ calls[i].pc = "delay"
  /\ \E late \in Lateness :
       LET call == [calls[i] EXCEPT !.waited = <<calls[i].delay + late>>] IN
       IF call.handler.response.kind = "function"
         THEN IF CallbackResult(call.handler.response).kind = "thrown"
                THEN Reject(i, Invoking(call), CallbackResult(call.handler.response))
                ELSE /\ calls' = [calls EXCEPT
                                    ![i] = [Invoking(call) EXCEPT !.pc = "callback"]]
                     /\ ret' = [Result("callback", FALSE, "pending",
                                       <<call.handler>>, << >>)
                                  EXCEPT !.invoked = Invoking(call).invoked]
                     /\ UNCHANGED fetchHandlers
         ELSE Resolve(i, call, call.handler.response, TRUE)
  /\ UNCHANGED <<configuration, globalFetch>>

\* the awaited callback settling the call only when it returned a value
CallbackSettles_SwallowsRejection(i) ==
  /\ i \in 1..Len(calls)
  /\ calls[i].pc = "callback"
  /\ CallbackResult(calls[i].handler.response).kind # "rejected"
  /\ Resolve(i, calls[i], CallbackResult(calls[i].handler.response), FALSE)
  /\ UNCHANGED <<configuration, globalFetch>>

\* the awaited callback of call i has settled: the call is rejected with
\* the callback's error or resolves with what the callback returned
CallbackSettles(i) ==
  /\ i \in 1..Len(calls)
  /\ calls[i].pc = "callback"
  /\ IF CallbackResult(calls[i].handler.response).kind = "rejected"
       THEN Reject(i, calls[i], CallbackResult(calls[i].handler.response))
       ELSE Resolve(i, calls[i], CallbackResult(calls[i].handler.response), FALSE)
  /\ UNCHANGED <<configuration, globalFetch>>

\* ------------------------------------------------- inputs of the registry
Handler(url, method, responseDelay, response) ==
  [url |-> url, method |-> method, responseDelay |-> responseDelay,
   response |-> response]

Specification(url, method) == [url |-> url, method |-> method]

Options(policy, delay, auto, logging) ==
  [handleUnmockedRequests |-> policy, responseDelay |-> delay,
   autoReplaceFetch |-> auto, logging |-> logging]

RawMethods == {{}, {"get"}, {"GET"}, {"post"}}

RegistryUrls ==
  {StringUrl(UserAny), PatternObject(1, UserAny), MissingUrl, StringUrl(Malformed)}

LookupUrls ==
  RegistryUrls \cup {StringUrl(UserSeven), PatternObject(2, UserAny)}

RegistryHandlers ==
  {Handler(u, m, {}, r) :
     u \in RegistryUrls, m \in RawMethods, r \in {NoResponse, SimpleResponse({})}}
    \cup {Handler(StringUrl(UserAny), {"get"}, {}, SimpleResponse({504}))}

RegistrySpecifications == {Specification(u, m) : u \in LookupUrls, m \in RawMethods}

RegistryOptions ==
  {Options({}, {}, a, {}) : a \in {{}, {"true"}, {"false"}, {"yes"}}}

RequestUrls == {UserSeven, UserEight, Ping}

Targets == {[kind |-> k, url |-> u] : k \in {"string", "Request"}, u \in {UserSeven, Ping}}

RequestOptions == {[method |-> m] : m \in RawMethods}

Next ==
  \/ GetFetchConfiguration
  \/ \E options \in RegistryOptions : SetFetchConfiguration(options)
  \/ ReplaceFetch
  \/ RestoreFetch
  \/ IsFetchReplaced
  \/ \E specification \in RegistrySpecifications : IncludesMockedFetch(specification)
  \/ \E target \in Targets, options \in RequestOptions : WillMockFetch(target, options)
  \/ \E handler \in RegistryHandlers :
       Len(fetchHandlers) < MaxHandlers /\ MockFetch(handler)
  \/ \E specification \in RegistrySpecifications : UnmockFetch(specification)
  \/ UnmockAllFetches

Spec == Init /\ [][Next]_vars

\* ------------------------------------------- inputs of intercepted calls
GeneralGet == Handler(StringUrl(UserAny), {}, {}, SimpleResponse({}))
SpecificGet == Handler(StringUrl(UserSeven), {"get"}, {0}, SimpleResponse({504}))
GeneralPost == Handler(StringUrl(UserAny), {"post"}, {5}, ResponseCallback(1, {201}))
PrebuiltGet == Handler(PatternObject(1, UserAny), {"GET"}, {}, ResponseObject(1, 204))

FetchHandlers == {GeneralGet, SpecificGet, GeneralPost, PrebuiltGet}

FetchSpecifications ==
  {Specification(StringUrl(UserAny), {}), Specification(StringUrl(UserSeven), {"GET"}),
   Specification(StringUrl(UserAny), {"POST"}), Specification(PatternObject(1, UserAny), {})}

FetchOptions ==
  {Options({p}, {}, {}, {}) : p \in {"pass-through", "return-404", "throw-error", "bogus"}}

FetchTargets ==
  {[kind |-> "string", url |-> u] : u \in RequestUrls}
    \cup {[kind |-> "Request", url |-> Ping]}

FetchRequestOptions == {[method |-> m] : m \in {{}, {"post"}, {"POST"}}}

NextFetch ==
  \/ \E options \in FetchOptions : SetFetchConfiguration(options)
  \/ \E handler \in FetchHandlers :
       Len(fetchHandlers) < MaxFetchHandlers /\ MockFetch(handler)
  \/ \E specification \in FetchSpecifications : UnmockFetch(specification)
  \/ UnmockAllFetches
  \/ ReplaceFetch
  \/ \E target \in FetchTargets, options \in FetchRequestOptions :
       Len(calls) < MaxCalls /\ Fetch(target, options)
  \/ \E i \in 1..MaxCalls : TimerFires(i)
  \/ \E i \in 1..MaxCalls : CallbackSettles(i)

SpecFetch == Init /\ [][NextFetch]_vars

\* options as a caller may write them: every recognized key absent, valid or
\* invalid, and replaceMockedFetches, a key setFetchConfiguration does not
\* know; "" is a falsy handleUnmockedRequests
ConfigOptions ==
  {o \in [handleUnmockedRequests : {{}, {""}, {"pass-through"}, {"return-404"},
                                    {"throw-error"}, {"bogus"}},
          responseDelay : {{}, {-1}, {0}, {7}},
          autoReplaceFetch : {{}, {"true"}, {"false"}, {"yes"}},
          logging : {{}, {"false"}, {"yes"}},
          replaceMockedFetches : {{}, {"true"}}] :
     o.replaceMockedFetches = {} \/ (o.autoReplaceFetch = {} /\ o.logging = {})}

\* what a caller assigns to the object getFetchConfiguration returned
ReturnedEdits ==
  {<<"handleUnmockedRequests", "pass-through">>, <<"responseDelay", 99>>,
   <<"logging", FALSE>>}

\* the configuration alone: read, written, and the returned object modified
NextConfig ==
  \/ GetFetchConfiguration
  \/ \E options \in ConfigOptions : SetFetchConfiguration(options)
  \/ \E edit \in ReturnedEdits : ModifyReturned(edit[1], edit[2])

SpecConfig == Init /\ [][NextConfig]_vars

\* the registry and the binding alone, autoReplaceFetch left at its default
\* and the binding never set explicitly
NextAuto ==
  \/ IsFetchReplaced
  \/ \E handler \in RegistryHandlers :
       Len(fetchHandlers) < MaxHandlers /\ MockFetch(handler)
  \/ \E specification \in RegistrySpecifications : UnmockFetch(specification)
  \/ UnmockAllFetches

SpecAuto == Init /\ [][NextAuto]_vars

\* ------------------------------------------- inputs of response synthesis
Trace == <<"X-Trace", "1">>

\* static simplified responses: the empty description and a status alone,
\* a plain object body under each representation of the headers, with and
\* without a content type in some letter case, and the other kinds of body
StaticResponses ==
  {SimpleResponse({}), SimpleResponse({504}),
   SimpleResponseWith({}, {"object"}, NoHeaders),
   SimpleResponseWith({201}, {"object"}, HeadersObject(1, <<Trace>>)),
   SimpleResponseWith({}, {"object"},
                      HeadersObject(2, <<Trace, <<"content-type", "text/plain">> >>)),
   SimpleResponseWith({}, {"object"}, HeadersArray(3, <<Trace>>)),
   SimpleResponseWith({}, {"object"},
                      HeadersArray(4, << <<"CONTENT-TYPE", "text/plain">> >>)),
   SimpleResponseWith({}, {"object"}, HeadersInstance(5, <<Trace>>)),
   SimpleResponseWith({}, {"object"},
                      HeadersInstance(6, << <<"Content-Type", "text/plain">> >>)),
   SimpleResponseWith({}, {"null"}, NoHeaders),
   SimpleResponseWith({}, {"string"}, HeadersObject(7, <<Trace>>)),
   SimpleResponseWith({}, {"ReadableStream"}, NoHeaders),
   SimpleResponseWith({202}, {"Uint8Array"}, HeadersArray(8, <<Trace>>)),
   SimpleResponseWith({}, {"Float16Array"}, NoHeaders)}

\* every static response without a delay of its own, and two handlers with
\* one: an explicit 0 and 2
ResponseHandlers ==
  {Handler(StringUrl(Ping), {}, {}, r) : r \in StaticResponses}
    \cup {Handler(StringUrl(Ping), {}, {0}, SimpleResponse({})),
          Handler(StringUrl(Ping), {}, {2}, SimpleResponse({504}))}

ResponseOptions == {Options({}, {d}, {}, {}) : d \in {0, 3}}

\* the handler object as the caller holds it: its headers value is the one
\* the registry or a call in flight holds under the same reference
Current(handler) ==
  LET held == {fetchHandlers[k] : k \in 1..Len(fetchHandlers)}
                \cup {calls[k].handler : k \in 1..Len(calls)}
      same == {h \in held :
                 /\ h.response.kind = "simple"
                 /\ handler.response.headers.kind # "undefined"
                 /\ h.response.headers.kind = handler.response.headers.kind
                 /\ h.response.headers.ref = handler.response.headers.ref}
  IN IF same = {}
       THEN handler
       ELSE [handler EXCEPT !.response.headers =
               (CHOOSE h \in same : TRUE).response.headers]

PingTarget == [kind |-> "string", url |-> Ping]

\* static responses served one awaited call at a time
NextResponse ==
  \/ \E options \in ResponseOptions : SetFetchConfiguration(options)
  \/ \E handler \in ResponseHandlers :
       Len(fetchHandlers) < MaxResponseHandlers /\ MockFetch(Current(handler))
  \/ UnmockAllFetches
  \/ calls = << >> /\ Fetch(PingTarget, [method |-> {}])
  \/ TimerFires(1)

SpecResponse == Init /\ [][NextResponse]_vars

\* ------------------------------------------ inputs of callback responses
\* a Response instance with a streaming body, as a static response and as
\* the value of a callback; a callback returning a simplified description;
\* callbacks that throw and that reject
StreamingResponse(ref) == [ResponseObject(ref, 200) EXCEPT !.body = {"ReadableStream"}]

CallbackHandlers ==
  {Handler(StringUrl(Ping), {}, {}, r) :
     r \in {StreamingResponse(1),
            CallbackReturning(1, StreamingResponse(2)),
            CallbackReturning(2, SimpleResponseWith({}, {"object"}, NoHeaders)),
            CallbackFailing(3, "thrown", 1),
            CallbackFailing(4, "rejected", 2)}}

CallbackOptions ==
  {Options(p, {}, {}, l) :
     p \in {{}, {"return-404"}, {"pass-through"}}, l \in {{}, {"true"}, {"false"}}}

\* callbacks and Response instances, calls overlapping
NextCallback ==
  \/ \E options \in CallbackOptions : SetFetchConfiguration(options)
  \/ \E handler \in CallbackHandlers :
       Len(fetchHandlers) < MaxCallbackHandlers /\ MockFetch(handler)
  \/ UnmockAllFetches
  \/ Len(calls) < MaxCalls /\ Fetch(PingTarget, [method |-> {}])
  \/ \E i \in 1..MaxCalls : TimerFires(i)
  \/ \E i \in 1..MaxCalls : CallbackSettles(i)

SpecCallback == Init /\ [][NextCallback]_vars

\* ---------------------------------------------- inputs of calls in flight
\* a slow callback behind a pattern with a group, a static response for one
\* url of that pattern, and callbacks that reject and that throw
SlowAny == Handler(StringUrl(UserAny), {}, {2}, CallbackReturning(5, SimpleResponse({201})))
QuickSeven == Handler(StringUrl(UserSeven), {"get"}, {}, SimpleResponse({504}))
RejectingPing == Handler(StringUrl(Ping), {}, {}, CallbackFailing(6, "rejected", 3))
ThrowingPing == Handler(StringUrl(Ping), {"GET"}, {1}, CallbackFailing(7, "thrown", 4))

FlightHandlers == {SlowAny, QuickSeven, RejectingPing, ThrowingPing}

FlightSpecifications ==
  {Specification(StringUrl(UserAny), {}), Specification(StringUrl(Ping), {"get"})}

FlightOptions ==
  {Options({p}, {}, {}, {}) : p \in {"pass-through", "return-404", "throw-error"}}

FlightUrls == {UserSeven, Ping}

FlightTargets == {[kind |-> "string", url |-> u] : u \in FlightUrls}

FlightRequestOptions == {[method |-> m] : m \in {{}, {"post"}}}

\* a caller that asks whether calls would be mocked, changes the registry
\* and the binding while calls are in flight, and has at most one call to a
\* url in flight at a time
NextFlight ==
  \/ \E options \in FlightOptions : SetFetchConfiguration(options)
  \/ \E handler \in FlightHandlers :
       Len(fetchHandlers) < MaxFlightHandlers /\ MockFetch(handler)
  \/ \E specification \in FlightSpecifications : UnmockFetch(specification)
  \/ UnmockAllFetches
  \/ ReplaceFetch
  \/ RestoreFetch
  \/ \E target \in FlightTargets, options \in FlightRequestOptions :
       WillMockFetch(target, options)
  \/ \E target \in FlightTargets, options \in FlightRequestOptions :
       /\ \A k \in 1..Len(calls) : calls[k].url # target.url
       /\ Fetch(target, options)
  \/ \E i \in 1..Cardinality(FlightUrls) : TimerFires(i)
  \/ \E i \in 1..Cardinality(FlightUrls) : CallbackSettles(i)

SpecFlight == Init /\ [][NextFlight]_vars

\* the same with timers that fire and callbacks that settle
SpecFlightFair ==
  /\ Init
  /\ [][NextFlight]_vars
  /\ \A i \in 1..Cardinality(FlightUrls) :
       WF_vars(TimerFires(i)) /\ WF_vars(CallbackSettles(i))

\* ------------------------------------------------------ the earlier version
\* the version of the module with the replaceMockedFetches setting
\* (src/src/index.ts, lines 1-376): const configuration = { ... }
EarlierConfiguration ==
  [handleUnmockedRequests |-> "throw-error",
   replaceMockedFetches |-> FALSE,
   responseDelay |-> 0,
   autoReplaceFetch |-> TRUE,
   logging |-> TRUE]

EarlierInit ==
  /\ fetchHandlers = << >>
  /\ configuration = EarlierConfiguration
  /\ globalFetch = "originalFetch"
  /\ ret = Result("load", FALSE, "undefined", << >>, << >>)
  /\ calls = << >>

\* normalizeHandler of the earlier version: the url and the response are
\* required, the method is normalized, no pattern is compiled
EarlierNormalizeHandler(handler) ==
  LET normalized == normalizeSpecification(handler) IN
  IF normalized.threw THEN normalized
  ELSE IF handler.response.kind = "undefined"
    THEN Thrown("Mocked fetch is missing \"response\"")
  ELSE Returned([url |-> handler.url,
                 method |-> CHOOSE m \in normalized.value[1].method : TRUE,
                 responseDelay |-> handler.responseDelay,
                 response |-> handler.response])

\* setFetchConfiguration of the earlier version
EarlierSetFetchConfiguration(options) ==
  LET policy == options.handleUnmockedRequests
      invalid == /\ policy # {} /\ policy # {""}
                 /\ policy \cap {"pass-through", "return-404", "throw-error"} = {}
      afterPolicy == IF policy # {} /\ policy # {""}
                       THEN [configuration EXCEPT
                               !.handleUnmockedRequests = CHOOSE p \in policy : TRUE]
                       ELSE configuration
      afterReplace == IF options.replaceMockedFetches \cap {"true", "false"} # {}
                        THEN [afterPolicy EXCEPT !.replaceMockedFetches =
                                (options.replaceMockedFetches = {"true"})]
                        ELSE afterPolicy
      afterDelay == IF \E d \in options.responseDelay : d >= 0
                      THEN [afterReplace EXCEPT
                              !.responseDelay = CHOOSE d \in options.responseDelay : TRUE]
                      ELSE afterReplace
      afterAuto == IF options.autoReplaceFetch \cap {"true", "false"} # {}
                     THEN [afterDelay EXCEPT
                             !.autoReplaceFetch = (options.autoReplaceFetch = {"true"})]
                     ELSE afterDelay
      afterLogging == IF options.logging \cap {"true", "false"} # {}
                        THEN [afterAuto EXCEPT !.logging = (options.logging = {"true"})]
                        ELSE afterAuto
  IN
  /\ IF invalid
       THEN /\ ret' = Result("setFetchConfiguration", TRUE,
                             "Invalid handleUnmockedRequests", << >>, << >>)
            /\ UNCHANGED configuration
       ELSE /\ ret' = Result("setFetchConfiguration", FALSE, "undefined", << >>, << >>)
            /\ configuration' = afterLogging
  /\ UNCHANGED <<fetchHandlers, globalFetch, calls>>

\* mockFetch of the earlier version throwing on a duplicate when
\* replaceMockedFetches is true, as the comment on the setting has it
EarlierMockFetch_ThrowsWhenSet(handler) ==
  LET normalized == EarlierNormalizeHandler(handler) IN
  /\ IF normalized.threw
       THEN /\ ret' = Result("mockFetch", TRUE, normalized.error, << >>, << >>)
            /\ UNCHANGED <<fetchHandlers, globalFetch>>
       ELSE LET index == findFetchHandler(fetchHandlers, handler.url,
                                          normalized.value[1].method) IN
            IF index >= 1 /\ configuration.replaceMockedFetches
              THEN /\ ret' = Outcome("mockFetch", TRUE, "Fetch already mocked", << >>, << >>,
                                     <<[method |-> normalized.value[1].method,
                                        url |-> fetchHandlers[index].url]>>,
                                     << >>, << >>, << >>)
                   /\ UNCHANGED <<fetchHandlers, globalFetch>>
              ELSE /\ fetchHandlers' = Append(fetchHandlers, normalized.value[1])
                   /\ globalFetch' = IF configuration.autoReplaceFetch
                                       THEN "mockedFetch" ELSE globalFetch
                   /\ ret' = Result("mockFetch", FALSE, "handler", normalized.value, << >>)
  /\ UNCHANGED <<configuration, calls>>

\* mockFetch of the earlier version: a handler with the url and the method
\* of a registered one is refused unless replaceMockedFetches is set; a copy
\* of the handler with the normalized method is appended and returned
EarlierMockFetch(handler) ==
  LET normalized == EarlierNormalizeHandler(handler) IN
  /\ IF normalized.threw
       THEN /\ ret' = Result("mockFetch", TRUE, normalized.error, << >>, << >>)
            /\ UNCHANGED <<fetchHandlers, globalFetch>>
       ELSE LET index == findFetchHandler(fetchHandlers, handler.url,
                                          normalized.value[1].method) IN
            IF index >= 1 /\ ~configuration.replaceMockedFetches
              THEN /\ ret' = Outcome("mockFetch", TRUE, "Fetch already mocked", << >>, << >>,
                                     <<[method |-> normalized.value[1].method,
                                        url |-> fetchHandlers[index].url]>>,
                                     << >>, << >>, << >>)
                   /\ UNCHANGED <<fetchHandlers, globalFetch>>
              ELSE /\ fetchHandlers' = Append(fetchHandlers, normalized.value[1])
                   /\ globalFetch' = IF configuration.autoReplaceFetch
                                       THEN "mockedFetch" ELSE globalFetch
                   /\ ret' = Result("mockFetch", FALSE, "handler", normalized.value, << >>)
  /\ UNCHANGED <<configuration, calls>>

\* unmockFetch of the earlier version: the fetch is restored only when the
\* registry has become empty; returns whether an entry was removed
EarlierUnmockFetch(specification) ==
  LET normalized == normalizeSpecification(specification) IN
  /\ IF normalized.threw
       THEN /\ ret' = Result("unmockFetch", TRUE, normalized.error, << >>, << >>)
            /\ UNCHANGED <<fetchHandlers, globalFetch>>
       ELSE LET index == findFetchHandler(fetchHandlers, specification.url,
                           CHOOSE m \in normalized.value[1].method : TRUE) IN
            /\ ret' = Result("unmockFetch", FALSE, Bool(index >= 1), << >>, << >>)
            /\ IF index >= 1
                 THEN /\ fetchHandlers' = RemoveAt(fetchHandlers, index)
                      /\ globalFetch' =
                           IF configuration.autoReplaceFetch /\ Len(fetchHandlers) = 1
                             THEN "originalFetch" ELSE globalFetch
                 ELSE UNCHANGED <<fetchHandlers, globalFetch>>
  /\ UNCHANGED <<configuration, calls>>

\* unmockAllFetches of the earlier version: returns whether there was an entry
EarlierUnmockAllFetches ==
  /\ fetchHandlers' = << >>
  /\ globalFetch' = IF configuration.autoReplaceFetch
                      THEN "originalFetch" ELSE globalFetch
  /\ ret' = Result("unmockAllFetches", FALSE, Bool(fetchHandlers # << >>), << >>, << >>)
  /\ UNCHANGED <<configuration, calls>>

\* replaceFetch of the earlier version: returns whether it changed the binding
EarlierReplaceFetch ==
  /\ globalFetch' = "mockedFetch"
  /\ ret' = Result("replaceFetch", FALSE, Bool(~isFetchReplaced), << >>, << >>)
  /\ UNCHANGED <<fetchHandlers, configuration, calls>>

\* restoreFetch of the earlier version: returns whether it changed the binding
EarlierRestoreFetch ==
  /\ globalFetch' = "originalFetch"
  /\ ret' = Result("restoreFetch", FALSE, Bool(isFetchReplaced), << >>, << >>)
  /\ UNCHANGED <<fetchHandlers, configuration, calls>>

EarlierHandlers ==
  {Handler(u, m, {}, r) :
     u \in {StringUrl(UserAny), PatternObject(1, UserAny), MissingUrl},
     m \in {{}, {"get"}, {"post"}},
     r \in {NoResponse, SimpleResponse({}), SimpleResponse({504})}}

EarlierSpecifications ==
  {Specification(u, m) :
     u \in {StringUrl(UserAny), PatternObject(1, UserAny)}, m \in {{}, {"POST"}}}

EarlierOptions ==
  {[handleUnmockedRequests |-> {}, replaceMockedFetches |-> r, responseDelay |-> {},
    autoReplaceFetch |-> a, logging |-> {}] :
     r \in {{}, {"true"}, {"false"}}, a \in {{}, {"false"}}}

\* the registry, the configuration and the binding of the earlier version
NextEarlier ==
  \/ \E options \in EarlierOptions : EarlierSetFetchConfiguration(options)
  \/ \E handler \in EarlierHandlers :
       Len(fetchHandlers) < MaxHandlers /\ EarlierMockFetch(handler)
  \/ \E specification \in EarlierSpecifications : EarlierUnmockFetch(specification)
  \/ EarlierUnmockAllFetches
  \/ EarlierReplaceFetch
  \/ EarlierRestoreFetch

SpecEarlier == EarlierInit /\ [][NextEarlier]_vars

\* ------------------------------------------------------------ properties
\* the registry entries that match a request: same method, pattern matches
Matching(url, method) ==
  {i \in 1..Len(fetchHandlers) :
     /\ fetchHandlers[i].method = method
     /\ PatternExec(fetchHandlers[i].pattern, url) # << >>}

\* s without its k-th element, stated elementwise
IsRemovalOf(after, before, k) ==
  /\ Len(after) = Len(before) - 1
  /\ \A i \in 1..Len(after) : after[i] = IF i < k THEN before[i] ELSE before[i + 1]

\* the raw methods that name the same method as a stored one, whatever the
\* letter case; no method stands for GET
Variants(method) ==
  CASE method \in {"GET", "get", "Get"} -> {{}, {"get"}, {"Get"}, {"GET"}}
    [] method \in {"POST", "post", "Post"} -> {{"post"}, {"Post"}, {"POST"}}
    [] OTHER -> {}

\* C1: first match wins.  An intercepted call is bound to the earliest
\* registered handler among those with the request's normalized method and a
\* pattern matching the url (to none when there is none; a handler with
\* another method is never bound), and what the call later invokes and
\* resolves to comes from that handler.
C1_FirstMatchWins ==
  [][/\ \A t \in FetchTargets, o \in FetchRequestOptions :
          (ret'.op = "fetch" /\ Fetch(t, o)) =>
            LET M == Matching(t.url, normalizeMethod(o.method)) IN
            IF M = {}
              THEN calls' = calls
              ELSE /\ Len(calls') = Len(calls) + 1
                   /\ \E k \in M :
                        /\ \A j \in M : k <= j
                        /\ calls'[Len(calls')].handler = fetchHandlers[k]
     /\ \A i \in 1..Len(calls) :
          (ret'.op \in {"callback", "settle"} /\ (TimerFires(i) \/ CallbackSettles(i)))
            => ret'.handler = <<calls[i].handler>>
    ]_vars

\* a call bound to the first entry while a different later entry matches too
C1_Witness ==
  /\ Len(fetchHandlers) >= 2
  /\ Len(calls) >= 1
  /\ calls[1].handler = fetchHandlers[1]
  /\ fetchHandlers[2] # fetchHandlers[1]
  /\ 2 \in Matching(calls[1].url, calls[1].method)
  /\ fetchHandlers[1].pattern = UserAny
  /\ fetchHandlers[2].pattern = UserSeven

\* C2: with autoReplaceFetch = true the fetch is not replaced at load, is
\* replaced after a successful mockFetch, is restored after an unmockFetch
\* that removes the last remaining handler, and is restored after
\* unmockAllFetches.
C2_AutoReplaceAndRestore ==
  /\ [](ret.op = "load" => ~isFetchReplaced)
  /\ [][configuration.autoReplaceFetch =>
          /\ \A h \in RegistryHandlers :
               (ret'.op = "mockFetch" /\ ~ret'.threw /\ MockFetch(h))
                 => globalFetch' = "mockedFetch"
          /\ \A s \in RegistrySpecifications :
               (ret'.op = "unmockFetch" /\ fetchHandlers # << >> /\ fetchHandlers' = << >>
                  /\ UnmockFetch(s))
                 => globalFetch' = "originalFetch"
          /\ UnmockAllFetches => globalFetch' = "originalFetch"
       ]_vars

\* the first handler has just been registered and the fetch is replaced
C2_Witness ==
  /\ configuration.autoReplaceFetch
  /\ ret.op = "mockFetch"
  /\ ~ret.threw
  /\ Len(fetchHandlers) = 1
  /\ isFetchReplaced

\* C3: with autoReplaceFetch = true and no explicit replaceFetch or
\* restoreFetch, the fetch is replaced exactly when the registry is not
\* empty.
C3_ReplacedIffRegistered == isFetchReplaced <=> fetchHandlers # << >>

\* C4: with autoReplaceFetch = false, mockFetch, unmockFetch and
\* unmockAllFetches leave the fetch binding as it was.
C4_NoAutoReplaceKeepsBinding ==
  [][~configuration.autoReplaceFetch =>
       /\ \A h \in RegistryHandlers :
            (ret'.op = "mockFetch" /\ MockFetch(h)) => globalFetch' = globalFetch
       /\ \A s \in RegistrySpecifications :
            (ret'.op = "unmockFetch" /\ UnmockFetch(s)) => globalFetch' = globalFetch
       /\ UnmockAllFetches => globalFetch' = globalFetch
    ]_vars

\* a handler has just been registered and the fetch is still the original
C4_Witness ==
  /\ ~configuration.autoReplaceFetch
  /\ ret.op = "mockFetch"
  /\ ~ret.threw
  /\ fetchHandlers # << >>
  /\ ~isFetchReplaced

\* C5: replaceFetch always leaves the fetch replaced and restoreFetch always
\* leaves the original fetch, neither changes the registry or the
\* configuration, and repeating either changes nothing more.
C5_ReplaceRestoreUnconditional ==
  [][/\ ReplaceFetch =>
          /\ globalFetch' = "mockedFetch"
          /\ globalFetch' # "originalFetch"
          /\ UNCHANGED <<fetchHandlers, configuration>>
     /\ RestoreFetch =>
          /\ globalFetch' = "originalFetch"
          /\ UNCHANGED <<fetchHandlers, configuration>>
     /\ (ret.op = "replaceFetch" /\ ReplaceFetch) => UNCHANGED vars
     /\ (ret.op = "restoreFetch" /\ RestoreFetch) => UNCHANGED vars
    ]_vars

\* the fetch has just been restored while handlers are registered
C5_Witness ==
  /\ ret.op = "restoreFetch"
  /\ ~isFetchReplaced
  /\ fetchHandlers # << >>

\* C6: replaceFetch returns true exactly when the fetch was not replaced
\* before the call, restoreFetch exactly when it was.
C6_ReplaceRestoreReturn ==
  [][/\ ReplaceFetch => (ret'.value = "true" <=> ~isFetchReplaced)
     /\ RestoreFetch => (ret'.value = "true" <=> isFetchReplaced)
    ]_vars

\* C7: every registered handler is found by includesMockedFetch under its
\* url and its method in any letter case (no method standing for GET), and
\* nothing is found in an empty registry.
C7_RegisteredIsIncluded ==
  /\ \A i \in 1..Len(fetchHandlers) :
       /\ Variants(fetchHandlers[i].method) # {}
       /\ \A m \in Variants(fetchHandlers[i].method) :
            includesMockedFetch(Specification(fetchHandlers[i].url, m)) = Returned(TRUE)
  /\ fetchHandlers = << >> =>
       \A s \in RegistrySpecifications :
         s.url.kind # "undefined" => includesMockedFetch(s) = Returned(FALSE)

\* a lookup has just found a handler that was registered without a method
\* or with a lowercase one
C7_Witness ==
  /\ ret.op = "includesMockedFetch"
  /\ ret.value = "true"
  /\ Len(fetchHandlers) = 1
  /\ fetchHandlers[1].method = "POST"

\* C8: an unmockFetch that changes the registry removes exactly one entry,
\* the first one with the identical url and the normalized method of the
\* specification; the others keep their order, and a specification with a
\* different url or method is included afterwards exactly when it was
\* before.
C8_UnmockRemovesFirstOnly ==
  [][\A s \in RegistrySpecifications :
       (ret'.op = "unmockFetch" /\ ~ret'.threw /\ UnmockFetch(s)) =>
         LET Same(i) == /\ StrictEquals(fetchHandlers[i].url, s.url)
                        /\ s.method \in Variants(fetchHandlers[i].method)
             S == {i \in 1..Len(fetchHandlers) : Same(i)}
         IN
         IF S = {}
           THEN fetchHandlers' = fetchHandlers
           ELSE /\ \E k \in S :
                     /\ \A j \in S : k <= j
                     /\ IsRemovalOf(fetchHandlers', fetchHandlers, k)
                /\ Cardinality(S) = 1 => includesMockedFetch(s)' = Returned(FALSE)
                /\ \A other \in RegistrySpecifications :
                     (other.url.kind # "undefined"
                        /\ (~StrictEquals(other.url, s.url)
                              \/ other.method \notin Variants(normalizeMethod(s.method))))
                       => includesMockedFetch(other)' = includesMockedFetch(other)
    ]_vars

\* one handler has just been unregistered and one with a different url is
\* still registered
C8_Witness ==
  /\ ret.op = "unmockFetch"
  /\ Len(fetchHandlers) = 1
  /\ fetchHandlers[1].url = PatternObject(1, UserAny)
  /\ includesMockedFetch(Specification(StringUrl(UserAny), {})) = Returned(FALSE)
  /\ includesMockedFetch(Specification(PatternObject(1, UserAny), {"get"})) = Returned(TRUE)

\* C9: after unmockAllFetches the registry is empty, no specification is
\* included and no request would be mocked; an intercepted call made while
\* the registry is empty is bound to no handler.
C9_BulkClear ==
  /\ [](ret.op = "unmockAllFetches" =>
          /\ fetchHandlers = << >>
          /\ \A s \in FetchSpecifications : includesMockedFetch(s) = Returned(FALSE)
          /\ \A t \in FetchTargets, o \in FetchRequestOptions : ~willMockFetch(t, o))
  /\ [][\A t \in FetchTargets, o \in FetchRequestOptions :
          (fetchHandlers = << >> /\ ret'.op = "fetch" /\ Fetch(t, o)) =>
            (calls' = calls /\ ret'.value # "pending")]_vars

\* the registry has just been cleared while a call bound to one of its
\* handlers is still in flight
C9_Witness ==
  /\ ret.op = "unmockAllFetches"
  /\ fetchHandlers = << >>
  /\ calls # << >>

\* C10: unmockFetch returns true exactly when it removed a handler, and
\* unmockAllFetches exactly when the registry was not empty.
C10_UnmockReturn ==
  [][/\ \A s \in RegistrySpecifications :
          (ret'.op = "unmockFetch" /\ ~ret'.threw /\ UnmockFetch(s)) =>
            (ret'.value = "true" <=> Len(fetchHandlers') < Len(fetchHandlers))
     /\ UnmockAllFetches => (ret'.value = "true" <=> fetchHandlers # << >>)
    ]_vars

\* the entries of the registry a specification names: the same url under ===
\* and the same method whatever the letter case
Named(specification) ==
  {i \in 1..Len(fetchHandlers) :
     /\ StrictEquals(fetchHandlers[i].url, specification.url)
     /\ specification.method \in Variants(fetchHandlers[i].method)}

\* C11: unmockFetch for a specification with a url that names no registered
\* handler is a no-op: the registry, the configuration and the binding of the
\* global fetch are what they were, and the call does not throw.
C11_UnmockAbsentIsNoOp ==
  [][\A s \in RegistrySpecifications :
       (/\ ret'.op = "unmockFetch"
        /\ s.url.kind # "undefined"
        /\ Named(s) = {}
        /\ UnmockFetch(s))
       => /\ ~ret'.threw
          /\ UNCHANGED <<fetchHandlers, configuration, globalFetch>>]_vars

\* an unmockFetch has returned with two handlers registered and the fetch
\* still replaced under autoReplaceFetch, which a removal would have restored
C11_Witness ==
  /\ ret.op = "unmockFetch"
  /\ ~ret.threw
  /\ Len(fetchHandlers) = 2
  /\ configuration.autoReplaceFetch
  /\ isFetchReplaced

\* C12 as stated: unmockFetch never fails.
C12_UnmockNeverFails == ret.op = "unmockFetch" => ~ret.threw

\* C12: unmockFetch fails exactly when the specification has no url: the
\* error is 'Mocked fetch is missing "url"' and the registry, the
\* configuration and the binding are left as they were.  For a specification
\* with a url it returns normally, whether or not a handler was removed.
C12_UnmockFailsOnlyWithoutUrl ==
  [][\A s \in RegistrySpecifications :
       (ret'.op = "unmockFetch" /\ UnmockFetch(s))
       => /\ ret'.threw <=> s.url.kind = "undefined"
          /\ ret'.threw =>
               /\ ret'.value = "Mocked fetch is missing \"url\""
               /\ UNCHANGED <<fetchHandlers, configuration, globalFetch>>]_vars

\* an unmockFetch without a url has thrown while a handler is registered
C12_Witness ==
  /\ ret.op = "unmockFetch"
  /\ ret.threw
  /\ ret.value = "Mocked fetch is missing \"url\""
  /\ fetchHandlers # << >>

\* C13: unmatched request policy.  An intercepted call that no registered
\* handler matches is settled by configuration.handleUnmockedRequests alone:
\* 'return-404' gives a response with status 404 and no body, 'throw-error'
\* throws an error naming the normalized method and the url, 'pass-through'
\* calls the original fetch; no handler is bound and no call is left waiting
\* for a callback.
C13_UnmatchedPolicy ==
  [][\A t \in FetchTargets, o \in FetchRequestOptions, m \in {"GET", "POST"} :
       (/\ ret'.op = "fetch"
        /\ o.method \in Variants(m)
        /\ Matching(t.url, m) = {}
        /\ Fetch(t, o))
       => /\ calls' = calls
          /\ ret'.handler = << >>
          /\ configuration.handleUnmockedRequests = "return-404" =>
               /\ ~ret'.threw
               /\ Len(ret'.response) = 1
               /\ ret'.response[1].status = {404}
               /\ ret'.response[1].body = {}
               /\ ret'.passed = << >>
          /\ configuration.handleUnmockedRequests = "throw-error" =>
               /\ ret'.threw
               /\ ret'.value = "Fetch not mocked"
               /\ ret'.error = <<[method |-> m, url |-> t.url]>>
               /\ ret'.response = << >>
               /\ ret'.passed = << >>
          /\ configuration.handleUnmockedRequests = "pass-through" =>
               /\ ~ret'.threw
               /\ ret'.value = "originalFetch"
               /\ Len(ret'.passed) = 1
               /\ ret'.response = << >>]_vars

\* a call that matched none of the registered handlers got the 404 response
C13_Witness ==
  /\ ret.op = "fetch"
  /\ fetchHandlers # << >>
  /\ configuration.handleUnmockedRequests = "return-404"
  /\ ret.response # << >>
  /\ ret.response[1].status = {404}

\* C14: on pass-through the original fetch is called with the target and the
\* options the caller supplied, no method added or altered.
C14_PassThroughOriginalArguments ==
  [][\A t \in FetchTargets, o \in FetchRequestOptions :
       (ret'.op = "fetch" /\ ret'.value = "originalFetch" /\ Fetch(t, o))
       => ret'.passed = <<[target |-> t, options |-> o]>>]_vars

\* C15: an unmatched call under 'throw-error' writes its failure to the
\* console before throwing when logging is enabled, and writes nothing when
\* logging is disabled.
C15_UnmatchedErrorLogged ==
  [][\A t \in FetchTargets, o \in FetchRequestOptions :
       (ret'.op = "fetch" /\ ret'.threw /\ Fetch(t, o))
       => /\ configuration.logging => ret'.log # << >>
          /\ ~configuration.logging => ret'.log = << >>]_vars

\* the three values handleUnmockedRequests may take
Policies == {"pass-through", "return-404", "throw-error"}

\* C16 as stated: a handleUnmockedRequests value that is not one of the three
\* makes setFetchConfiguration fail and apply nothing.
C16_InvalidPolicyFails ==
  [][\A o \in ConfigOptions :
       (/\ ret'.op = "setFetchConfiguration"
        /\ o.handleUnmockedRequests # {}
        /\ o.handleUnmockedRequests \cap Policies = {}
        /\ SetFetchConfiguration(o))
       => ret'.threw /\ configuration' = configuration]_vars

\* C16: a non-empty handleUnmockedRequests string that is not one of the three
\* makes setFetchConfiguration fail with 'Invalid handleUnmockedRequests'
\* and the whole configuration stays what it was, whatever else the call
\* carries; an empty string is taken as absent: the call returns, the policy
\* stays, and the other fields are applied as if the key were not there.
C16_InvalidTruthyPolicyFails ==
  [][\A o \in ConfigOptions :
       (ret'.op = "setFetchConfiguration" /\ SetFetchConfiguration(o))
       => /\ (o.handleUnmockedRequests \notin {{}, {""}}
               /\ o.handleUnmockedRequests \cap Policies = {})
             => /\ ret'.threw
                /\ ret'.value = "Invalid handleUnmockedRequests"
                /\ configuration' = configuration
          /\ o.handleUnmockedRequests = {""}
             => /\ ~ret'.threw
                /\ configuration'.handleUnmockedRequests =
                     configuration.handleUnmockedRequests
                /\ o.responseDelay = {7} => configuration'.responseDelay = 7]_vars

\* a setFetchConfiguration has failed on a configuration that earlier calls
\* had changed, and that is still in force
C16_Witness ==
  /\ ret.op = "setFetchConfiguration"
  /\ ret.threw
  /\ configuration.responseDelay = 7
  /\ ~configuration.autoReplaceFetch
  /\ configuration.handleUnmockedRequests = "return-404"

\* C17: setFetchConfiguration changes a field only to a value validly
\* supplied for it, and a call that returns applies every such value: a
\* responseDelay >= 0 (a negative or missing one keeps the delay), a boolean
\* autoReplaceFetch or logging (any other value keeps it), one of the three
\* policies; a key it does not know changes nothing and adds no key.
C17_PerFieldValidation ==
  [][\A o \in ConfigOptions :
       (ret'.op = "setFetchConfiguration" /\ SetFetchConfiguration(o))
       => LET before == configuration
              after == configuration'
              valid == [handleUnmockedRequests |->
                          o.handleUnmockedRequests \cap Policies,
                        responseDelay |-> {d \in o.responseDelay : d >= 0},
                        autoReplaceFetch |->
                          {b \in BOOLEAN : Bool(b) \in o.autoReplaceFetch},
                        logging |-> {b \in BOOLEAN : Bool(b) \in o.logging}]
          IN
          /\ DOMAIN after = DOMAIN before
          /\ \A key \in DOMAIN before :
               /\ after[key] # before[key] => after[key] \in valid[key]
               /\ ~ret'.threw /\ valid[key] # {} => after[key] \in valid[key]
               /\ valid[key] = {} => after[key] = before[key]]_vars

\* a setFetchConfiguration has returned with the delay, the policy and the
\* two booleans all away from their defaults
C17_Witness ==
  /\ ret.op = "setFetchConfiguration"
  /\ ~ret.threw
  /\ configuration.responseDelay = 7
  /\ configuration.handleUnmockedRequests = "pass-through"
  /\ ~configuration.logging
  /\ ~configuration.autoReplaceFetch

\* C18: getFetchConfiguration changes nothing and returns the fields of the
\* configuration in an object of its own: an assignment to the returned
\* object leaves the configuration, the registry and the binding as they
\* were, so a later getFetchConfiguration returns what it would have.
C18_ConfigurationIsCopied ==
  [][/\ (ret'.op = "getFetchConfiguration" /\ GetFetchConfiguration)
        => /\ UNCHANGED <<fetchHandlers, configuration, globalFetch>>
           /\ Len(ret'.object) = 1
           /\ ret'.object[1].fields = configuration
     /\ \A edit \in ReturnedEdits :
          (ret'.op = "modifyReturned" /\ ModifyReturned(edit[1], edit[2]))
          => /\ ret'.object[1].fields[edit[1]] = edit[2]
             /\ UNCHANGED <<fetchHandlers, configuration, globalFetch>>]_vars

\* the object a getFetchConfiguration returned has been assigned a delay and
\* a logging flag that the configuration does not have
C18_Witness ==
  /\ ret.op = "modifyReturned"
  /\ ret.object[1].fields.responseDelay = 99
  /\ ~ret.object[1].fields.logging
  /\ configuration.responseDelay # 99
  /\ configuration.logging

\* C19: when the module has been loaded and nothing has been called yet, the
\* configuration is handleUnmockedRequests 'throw-error', responseDelay 0,
\* autoReplaceFetch true, logging true and has no other key; the registry
\* is empty and the global fetch is the original one.
C19_InitialState ==
  ret.op = "load"
  => /\ DOMAIN configuration =
          {"handleUnmockedRequests", "responseDelay", "autoReplaceFetch", "logging"}
     /\ configuration.handleUnmockedRequests = "throw-error"
     /\ configuration.responseDelay = 0
     /\ configuration.autoReplaceFetch = TRUE
     /\ configuration.logging = TRUE
     /\ fetchHandlers = << >>
     /\ calls = << >>
     /\ ~isFetchReplaced

\* the module has been loaded and no function of it has been called
C19_Witness ==
  /\ ret.op = "load"
  /\ ret.value = "undefined"
  /\ globalFetch = "originalFetch"

\* C20: mockFetch with a handler that has no url or no response throws, and
\* the registry, the configuration and the binding of the global fetch are
\* what they were before the call; a failed first registration leaves the
\* original fetch in place.
C20_FailedMockFetchChangesNothing ==
  [][\A h \in RegistryHandlers :
       (/\ ret'.op = "mockFetch"
        /\ (h.url.kind = "undefined" \/ h.response.kind = "undefined")
        /\ MockFetch(h))
       => /\ ret'.threw
          /\ ret'.value = IF h.url.kind = "undefined"
                            THEN "Mocked fetch is missing \"url\""
                            ELSE "Mocked fetch is missing \"response\""
          /\ UNCHANGED <<fetchHandlers, configuration, globalFetch>>]_vars

\* a first registration without a response has thrown: the registry is
\* empty and the fetch not replaced although autoReplaceFetch is on
C20_Witness ==
  /\ ret.op = "mockFetch"
  /\ ret.threw
  /\ ret.value = "Mocked fetch is missing \"response\""
  /\ fetchHandlers = << >>
  /\ configuration.autoReplaceFetch
  /\ ~isFetchReplaced

\* C21: mockFetch of a handler whose url is a malformed pattern throws and
\* leaves the registry, the configuration and the binding as they were; so
\* every pattern in the registry is a compiled one, and a lookup by
\* willMockFetch never throws.
C21_MalformedPatternRejected ==
  /\ [](/\ \A i \in 1..Len(fetchHandlers) :
            \A k \in 1..Len(fetchHandlers[i].pattern) :
              fetchHandlers[i].pattern[k] # ":"
        /\ ret.op = "willMockFetch" => ~ret.threw)
  /\ [][\A h \in RegistryHandlers :
          (/\ ret'.op = "mockFetch"
           /\ h.url = StringUrl(Malformed)
           /\ MockFetch(h))
          => /\ ret'.threw
             /\ UNCHANGED <<fetchHandlers, configuration, globalFetch>>]_vars

\* a registration with a malformed pattern has thrown on the pattern while
\* another handler is registered
C21_Witness ==
  /\ ret.op = "mockFetch"
  /\ ret.threw
  /\ ret.value = "Invalid URLPattern"
  /\ Len(fetchHandlers) = 1

\* C22: a mockFetch that returns appends: the registry after it is the
\* registry before it followed by one new entry with the handler's url and
\* response and the upper-case method (GET when none is given), whether or
\* not an entry of the same url and method was there; the handler returned
\* is that entry.
C22_MockFetchAppends ==
  [][\A h \in RegistryHandlers :
       (ret'.op = "mockFetch" /\ ~ret'.threw /\ MockFetch(h))
       => /\ Len(fetchHandlers') = Len(fetchHandlers) + 1
          /\ \A i \in 1..Len(fetchHandlers) : fetchHandlers'[i] = fetchHandlers[i]
          /\ LET added == fetchHandlers'[Len(fetchHandlers')] IN
             /\ added.url = h.url
             /\ added.response = h.response
             /\ added.responseDelay = h.responseDelay
             /\ added.method \in {"GET", "POST"}
             /\ h.method \in Variants(added.method)
             /\ ret'.handler = <<added>>]_vars

\* a mockFetch has returned and the registry holds two entries of the same
\* url and method, the second with another response
C22_Witness ==
  /\ ret.op = "mockFetch"
  /\ ~ret.threw
  /\ Len(fetchHandlers) = 2
  /\ fetchHandlers[1].url = fetchHandlers[2].url
  /\ fetchHandlers[1].method = fetchHandlers[2].method
  /\ fetchHandlers[1].response # fetchHandlers[2].response

\* C23: delay honoured.  A matched call waits for the handler's own
\* responseDelay when the handler has one, an explicit 0 included, and for
\* the configuration's responseDelay of the moment of the call otherwise;
\* the call keeps that delay while it waits and settles no earlier than it.
C23_DelayHonoured ==
  /\ [](\A i \in 1..Len(calls) :
          calls[i].handler.responseDelay # {}
            => calls[i].delay \in calls[i].handler.responseDelay)
  /\ [][/\ (ret'.op = "fetch" /\ calls' # calls /\ Fetch(PingTarget, [method |-> {}]))
            => LET call == calls'[Len(calls')] IN
               /\ call.handler = fetchHandlers[1]
               /\ call.delay \in (IF call.handler.responseDelay = {}
                                    THEN {configuration.responseDelay}
                                    ELSE call.handler.responseDelay)
         /\ (ret'.op = "settle" /\ TimerFires(1))
            => /\ Len(ret'.waited) = 1
               /\ ret'.waited[1] >= calls[1].delay
               /\ \A d \in calls[1].handler.responseDelay : ret'.waited[1] >= d]_vars

\* a call to a handler with an explicit delay of 0 has settled at once while
\* the configured delay is 3
C23_Witness ==
  /\ ret.op = "settle"
  /\ ret.handler[1].responseDelay = {0}
  /\ ret.waited = <<0>>
  /\ configuration.responseDelay = 3

\* the value a call synthesizes its response from: the handler's response,
\* or what its callback returns
ResponseValue(call) ==
  IF call.handler.response.kind = "function"
    THEN call.handler.response.result[1]
    ELSE call.handler.response

\* C24: full response passthrough.  When the handler's response, or the
\* value its callback returns, is a Response instance, the call resolves to
\* that very instance, with its body and headers as they are, and nothing
\* in the registry changes.
C24_ResponsePassthrough ==
  [][\A i \in 1..Len(calls) :
       (/\ ret'.op = "settle"
        /\ ResponseValue(calls[i]).kind = "Response"
        /\ (TimerFires(i) \/ CallbackSettles(i)))
       => /\ ~ret'.threw
          /\ ret'.response = <<ResponseValue(calls[i])>>
          /\ ret'.response[1].ref # 0
          /\ fetchHandlers' = fetchHandlers]_vars

\* a call has resolved to the Response instance with a streaming body that
\* its callback returned
C24_Witness ==
  /\ ret.op = "settle"
  /\ ret.handler[1].response.kind = "function"
  /\ ret.response = <<StreamingResponse(2)>>

\* the spellings of the content type header name
ContentTypeNames == {"content-type", "Content-Type", "CONTENT-TYPE"}

\* the positions of the content type entries of a headers value
ContentTypes(headers) ==
  {i \in 1..Len(headers.entries) : headers.entries[i][1] \in ContentTypeNames}

\* C25: JSON auto-serialization.  A simplified response with a plain object
\* body resolves to a response whose body is the JSON text, whose status is
\* the one given or 200, and whose headers are the ones supplied, in order,
\* plus 'content-type: application/json' exactly when the supplied object,
\* array or Headers instance has no content type in any letter case; a
\* content type that was supplied keeps its value and stays the only one.
C25_JsonContentType ==
  [][(/\ ret'.op = "settle"
      /\ calls # << >>
      /\ calls[1].handler.response.body = {"object"}
      /\ TimerFires(1))
     => LET given == calls[1].handler.response
            built == ret'.response[1]
            kept == 1..Len(given.headers.entries)
        IN
        /\ ~ret'.threw
        /\ built.kind = "Response"
        /\ built.body = {"json"}
        /\ built.status = (IF given.status = {} THEN {200} ELSE given.status)
        /\ \A i \in kept :
             /\ built.headers.entries[i][2] = given.headers.entries[i][2]
             /\ i \in ContentTypes(built.headers) <=> i \in ContentTypes(given.headers)
        /\ Cardinality(ContentTypes(built.headers)) = 1
        /\ IF ContentTypes(given.headers) = {}
             THEN /\ Len(built.headers.entries) = Len(given.headers.entries) + 1
                  /\ built.headers.entries[Len(built.headers.entries)] =
                       <<"content-type", "application/json">>
             ELSE Len(built.headers.entries) = Len(given.headers.entries)]_vars

\* a call has resolved with the JSON content type added to an array of
\* headers that had none, after the entry that was supplied
C25_Witness ==
  /\ ret.op = "settle"
  /\ ret.response # << >>
  /\ ret.response[1].body = {"json"}
  /\ ret.response[1].headers.entries =
       << <<"x-trace", "1">>, <<"content-type", "application/json">> >>
  /\ ret.handler[1].response.headers.kind = "array"

\* the bodies the Response constructor takes as they are: none, null, a
\* string, a stream, a buffer or a view on one, a Blob, form data
AcceptedBodies ==
  {{}, {"null"}, {"string"}, {"ReadableStream"}, {"ArrayBuffer"}, {"DataView"},
   {"Uint8Array"}, {"Float16Array"}, {"Blob"}, {"FormData"}, {"URLSearchParams"}}

\* C26: a simplified response whose body the Response constructor takes as
\* it is (none, null, a string, a stream, a binary buffer, ...) reaches the
\* response unchanged, not serialized and with no JSON content type added
\* to the headers supplied; only the other bodies are serialized.
C26_AcceptedBodyUnchanged ==
  [][(/\ ret'.op = "settle"
      /\ calls # << >>
      /\ calls[1].handler.response.kind = "simple"
      /\ TimerFires(1))
     => LET given == calls[1].handler.response
            built == ret'.response[1]
        IN
        IF given.body \in AcceptedBodies
          THEN /\ built.body = (IF given.body = {"null"} THEN {} ELSE given.body)
               /\ Len(built.headers.entries) = Len(given.headers.entries)
               /\ \A i \in 1..Len(given.headers.entries) :
                    built.headers.entries[i][2] = given.headers.entries[i][2]
               /\ fetchHandlers' = fetchHandlers
          ELSE built.body = {"json"}]_vars

\* C27: status passthrough.  A matched handler whose simplified response
\* has no body resolves to a response with the status given, or 200 when
\* the description gives none, and with no body.
C27_StatusPassthrough ==
  [][(/\ ret'.op = "settle"
      /\ calls # << >>
      /\ calls[1].handler.response.kind = "simple"
      /\ calls[1].handler.response.body = {}
      /\ TimerFires(1))
     => /\ ~ret'.threw
        /\ Len(ret'.response) = 1
        /\ ret'.response[1].kind = "Response"
        /\ ret'.response[1].body = {}
        /\ \A status \in {200, 504} :
             (calls[1].handler.response.status = {status}
              \/ (status = 200 /\ calls[1].handler.response.status = {}))
             => ret'.response[1].status = {status}]_vars

\* the call to a handler with response {status: 504} has resolved to a
\* response with status 504 and no body
C27_Witness ==
  /\ ret.op = "settle"
  /\ ret.handler[1].response = SimpleResponse({504})
  /\ ret.response[1].status = {504}
  /\ ret.response[1].body = {}

\* C28: when the response callback of a call throws or its promise rejects,
\* the call is rejected with that same error, with one error entry written
\* to the console when logging is enabled and none otherwise; no response
\* is produced, the original fetch is not called, the call is gone and is
\* not run again, and the registry, the configuration and the binding are
\* as they were.  A callback that throws rejects the call when it is
\* invoked, one that rejects when its promise settles.
C28_CallbackFailurePropagates ==
  /\ [](\A i \in 1..Len(calls) :
          calls[i].pc = "callback" => ResponseValue(calls[i]).kind # "thrown")
  /\ [][\A i \in 1..Len(calls) :
          (/\ ret'.op \in {"settle", "callback"}
           /\ ResponseValue(calls[i]).kind \in {"thrown", "rejected"}
           /\ (TimerFires(i) \/ CallbackSettles(i)))
          => /\ UNCHANGED <<fetchHandlers, configuration, globalFetch>>
             /\ IF calls[i].pc = "delay" /\ ResponseValue(calls[i]).kind = "rejected"
                  THEN /\ ret'.op = "callback"
                       /\ Len(calls') = Len(calls)
                       /\ calls'[i].pc = "callback"
                  ELSE /\ ret'.op = "settle"
                       /\ ret'.threw
                       /\ ret'.error = <<ResponseValue(calls[i])>>
                       /\ ret'.response = << >>
                       /\ ret'.passed = << >>
                       /\ ret'.log =
                            (IF configuration.logging
                               THEN <<[level |-> "error", method |-> calls[i].method,
                                       url |-> calls[i].url]>>
                               ELSE << >>)
                       /\ IsRemovalOf(calls', calls, i)]_vars

\* a call has been rejected with the error its callback's promise rejected
\* with, and logged, while the unmocked-request policy is 'return-404'
C28_Witness ==
  /\ ret.op = "settle"
  /\ ret.threw
  /\ ret.error = <<[kind |-> "rejected", ref |-> 2]>>
  /\ Len(ret.log) = 1
  /\ ret.log[1].level = "error"
  /\ configuration.handleUnmockedRequests = "return-404"

\* C29: method matching ignores the letter case on both sides and takes GET
\* for a missing method.  The entry a mockFetch stores names the method the
\* handler was written with, and an intercepted call is answered exactly
\* when some entry's pattern matches its url and its options name the same
\* method as that entry, by such an entry.
C29_MethodCaseInsensitive ==
  [][/\ \A h \in FetchHandlers :
          (ret'.op = "mockFetch" /\ ~ret'.threw /\ MockFetch(h))
          => h.method \in Variants(fetchHandlers'[Len(fetchHandlers')].method)
     /\ \A t \in FetchTargets, o \in FetchRequestOptions :
          (ret'.op = "fetch" /\ Fetch(t, o))
          => LET answering ==
                   {i \in 1..Len(fetchHandlers) :
                      /\ PatternExec(fetchHandlers[i].pattern, t.url) # << >>
                      /\ o.method \in Variants(fetchHandlers[i].method)}
             IN IF answering = {}
                  THEN calls' = calls
                  ELSE /\ Len(calls') = Len(calls) + 1
                       /\ \E i \in answering :
                            calls'[Len(calls')].handler = fetchHandlers[i]]_vars

\* a POST call is in flight, bound to the handler that was registered with
\* the method written 'post', while a GET handler for the url comes first
C29_Witness ==
  /\ Len(calls) = 1
  /\ calls[1].method = "POST"
  /\ Len(fetchHandlers) = 2
  /\ fetchHandlers[1].method = "GET"
  /\ fetchHandlers[1].pattern = UserAny
  /\ calls[1].handler = fetchHandlers[2]
  /\ calls[1].handler.response = GeneralPost.response

\* C30: includesMockedFetch looks an entry up by identity.  For every
\* specification with a url it returns true exactly when some entry has the
\* identical url value (the same string, the same URLPattern object) and
\* names the same method; a url that a registered pattern merely matches
\* gives false although a call to it would be mocked.
C30_IncludesIsIdentityLookup ==
  \A s \in RegistrySpecifications :
    s.url.kind # "undefined" => includesMockedFetch(s) = Returned(Named(s) # {})

\* a lookup has returned false while the only entry is a GET pattern that
\* matches the concrete url users/7: a call to that url would be mocked,
\* yet the url is not included
C30_Witness ==
  /\ ret.op = "includesMockedFetch"
  /\ ret.value = "false"
  /\ Len(fetchHandlers) = 1
  /\ fetchHandlers[1].url = StringUrl(UserAny)
  /\ fetchHandlers[1].method = "GET"
  /\ willMockFetch([kind |-> "string", url |-> UserSeven], [method |-> {}])
  /\ includesMockedFetch(Specification(StringUrl(UserSeven), {})) = Returned(FALSE)

\* C31: willMockFetch agrees with the interception path.  willMockFetch
\* returns true exactly when some entry has the request's normalized method
\* and a pattern matching its url, which is exactly when an intercepted
\* fetch of the same target and options made in that state is bound to a
\* handler instead of being answered by the unmocked-request policy; and
\* willMockFetch starts no call, invokes nothing, waits for nothing and
\* leaves the registry, the configuration and the binding as they were.
C31_WillMockAgreesWithFetch ==
  [][/\ \A t \in FlightTargets, o \in FlightRequestOptions :
          (ret'.op = "willMockFetch" /\ WillMockFetch(t, o))
          => /\ ~ret'.threw
             /\ ret'.value = Bool(Matching(t.url, normalizeMethod(o.method)) # {})
             /\ ret'.handler = << >>
             /\ ret'.waited = << >>
             /\ UNCHANGED <<fetchHandlers, configuration, globalFetch, calls>>
     /\ \A t \in FlightTargets, o \in FlightRequestOptions :
          (ret'.op = "fetch" /\ Fetch(t, o))
          => IF willMockFetch(t, o)
               THEN /\ Len(calls') = Len(calls) + 1
                    /\ ret'.value = "pending"
                    /\ ret'.passed = << >>
               ELSE /\ calls' = calls
                    /\ ret'.value \in {"Fetch not mocked", "response", "originalFetch"}]_vars

\* willMockFetch has just returned true for users/7, which only a pattern
\* with a group matches, while a call to that url is waiting for its delay
\* and the fetch is no longer replaced
C31_Witness ==
  /\ ret.op = "willMockFetch"
  /\ ret.value = "true"
  /\ Len(fetchHandlers) = 1
  /\ fetchHandlers[1].pattern = UserAny
  /\ willMockFetch([kind |-> "string", url |-> UserSeven], [method |-> {}])
  /\ ~willMockFetch([kind |-> "string", url |-> Ping], [method |-> {}])
  /\ ~willMockFetch([kind |-> "string", url |-> UserSeven], [method |-> {"post"}])
  /\ Len(calls) = 1
  /\ calls[1].pc = "delay"
  /\ ~isFetchReplaced

C33_HandlerNeverMutated ==
  [][(ret'.op \in {"fetch", "callback", "settle"}
        /\ (Fetch(PingTarget, [method |-> {}]) \/ TimerFires(1)))
     => fetchHandlers' = fetchHandlers]_vars

C35_StepsInOrder ==
  /\ [](\A i \in 1..Len(calls) :
          /\ calls[i].pc = "delay" => (calls[i].invoked = << >> /\ calls[i].waited = << >>)
          /\ calls[i].pc = "callback" =>
               /\ calls[i].handler.response.kind = "function"
               /\ Len(calls[i].invoked) = 1
               /\ calls[i].waited # << >>)
  /\ [][/\ \A t \in FlightTargets, o \in FlightRequestOptions :
             (ret'.op = "fetch" /\ calls' # calls /\ Fetch(t, o))
             => LET call == calls'[Len(calls')]
                    M == Matching(t.url, normalizeMethod(o.method))
                IN /\ \E k \in M : (\A j \in M : k <= j) /\ call.handler = fetchHandlers[k]
                   /\ call.pc = "delay"
                   /\ call.invoked = << >>
                   /\ ret'.response = << >>
                   /\ ret'.invoked = << >>
        /\ \A i \in 1..Len(calls) :
             (ret'.op \in {"callback", "settle"} /\ TimerFires(i))
             => /\ calls[i].pc = "delay"
                /\ IF calls[i].handler.response.kind = "function"
                     THEN /\ Len(ret'.invoked) = 1
                          /\ ret'.invoked[1].callback = calls[i].handler.response.ref
                          /\ ret'.invoked[1].options.match =
                               PatternExec(calls[i].handler.pattern, calls[i].url)
                          /\ ret'.invoked[1].options.match # << >>
                          /\ ret'.invoked[1].after >= calls[i].delay
                          /\ ret'.response = << >>
                          /\ ret'.op = "callback" =>
                               /\ Len(calls') = Len(calls)
                               /\ calls'[i].pc = "callback"
                               /\ calls'[i].invoked = ret'.invoked
                     ELSE /\ ret'.op = "settle"
                          /\ ret'.invoked = << >>
        /\ \A i \in 1..Len(calls) :
             (ret'.op = "settle" /\ CallbackSettles(i))
             => /\ calls[i].pc = "callback"
                /\ ret'.invoked = calls[i].invoked
                /\ Len(ret'.invoked) = 1
                /\ Len(ret'.waited) = 1
                /\ ret'.invoked[1].after = ret'.waited[1]
       ]_vars

\* a call to users/7 has resolved with what its callback returned; the
\* callback was invoked once, after the delay of 2, with the group of the
\* pattern users/:id bound to 7, although the registry has been changed
\* since the call was made
C35_Witness ==
  /\ ret.op = "settle"
  /\ ~ret.threw
  /\ ret.handler = <<[url |-> SlowAny.url, method |-> "GET", responseDelay |-> {2},
                      response |-> SlowAny.response, pattern |-> UserAny]>>
  /\ Len(ret.invoked) = 1
  /\ ret.invoked[1].options.match = <<{<<":id", "7">>}>>
  /\ ret.invoked[1].after >= 2
  /\ ret.response # << >>
  /\ \A k \in 1..Len(fetchHandlers) : fetchHandlers[k].pattern # UserAny

\* the operations on the registry, the configuration and the binding
RegistryOperations ==
  {"setFetchConfiguration", "getFetchConfiguration", "mockFetch", "unmockFetch",
   "unmockAllFetches", "replaceFetch", "restoreFetch", "isFetchReplaced",
   "includesMockedFetch", "willMockFetch"}

\* C36: a call in flight is bound to the handler it matched when it was
\* made.  No operation on the registry, the configuration or the binding
\* touches the calls in flight, and a new call leaves the earlier ones as
\* they are; a call leaves only by settling.  Whatever the registry and the
\* binding are when its timer fires or its callback settles, the call goes
\* on with the handler it holds: it invokes that handler's callback, resolves
\* with the status that handler's response gives (200 when it gives none)
\* or is rejected with the error of that handler's callback, is never
\* answered by the unmocked-request policy and leaves the other calls alone.
C36_InFlightCallKeepsHandler ==
  [][/\ ret'.op \in RegistryOperations => calls' = calls
     /\ ret'.op = "fetch" =>
          /\ Len(calls') >= Len(calls)
          /\ SubSeq(calls', 1, Len(calls)) = calls
     /\ Len(calls') < Len(calls) => ret'.op = "settle"
     /\ \A i \in 1..Len(calls) :
          (ret'.op \in {"callback", "settle"} /\ (TimerFires(i) \/ CallbackSettles(i)))
          => /\ ret'.handler = <<calls[i].handler>>
             /\ ret'.passed = << >>
             /\ ret'.value \in {"pending", "response", "callback error"}
             /\ UNCHANGED <<fetchHandlers, configuration, globalFetch>>
             /\ IF ret'.op = "callback"
                  THEN /\ Len(calls') = Len(calls)
                       /\ calls'[i].handler = calls[i].handler
                       /\ \A k \in 1..Len(calls) : k # i => calls'[k] = calls[k]
                  ELSE /\ IsRemovalOf(calls', calls, i)
                       /\ IF ResponseValue(calls[i]).kind \in {"thrown", "rejected"}
                            THEN /\ ret'.threw
                                 /\ ret'.error = <<ResponseValue(calls[i])>>
                            ELSE /\ ~ret'.threw
                                 /\ ret'.response[1].status =
                                      (IF ResponseValue(calls[i]).status = {}
                                         THEN {200}
                                         ELSE ResponseValue(calls[i]).status)]_vars

\* a call to users/7 has resolved with the 201 of the callback of the
\* pattern handler it was bound to, while that handler is no longer
\* registered, the only registered handler would answer users/7 with 504,
\* and the fetch has been restored
C36_Witness ==
  /\ ret.op = "settle"
  /\ ret.handler[1].response = SlowAny.response
  /\ ret.response # << >>
  /\ ret.response[1].status = {201}
  /\ Len(fetchHandlers) = 1
  /\ fetchHandlers[1].response = QuickSeven.response
  /\ willMockFetch([kind |-> "string", url |-> UserSeven], [method |-> {}])
  /\ ~isFetchReplaced

\* a call to the url is in flight
InFlight(url) == \E k \in 1..Len(calls) : calls[k].url = url

\* C37: every intercepted call settles, exactly once.  A call no handler
\* matches is settled when it is made, by exactly one of an error, a
\* response or the promise of the original fetch.  A matched call, given
\* that timers fire and callbacks settle, leaves the calls in flight
\* eventually, and it leaves by one step that either resolves it with one
\* response or rejects it with one error.  The calls are independent: a
\* call that waits for its timer can always have it fire and a call that
\* waits for its callback can always have it settle, whatever the other
\* calls do, and a call that settles or fails leaves the others as they are.
C37_EveryCallSettlesOnce ==
  /\ \A u \in FlightUrls : InFlight(u) ~> ~InFlight(u)
  /\ [](\A i \in 1..Len(calls) :
          /\ calls[i].pc \in {"delay", "callback"}
          /\ calls[i].pc = "delay" => ENABLED TimerFires(i)
          /\ calls[i].pc = "callback" => ENABLED CallbackSettles(i))
  /\ [][/\ (ret'.op = "fetch" /\ calls' = calls)
             => (IF ret'.threw THEN 1 ELSE 0)
                  + Len(ret'.response) + Len(ret'.passed) = 1
        /\ \A i \in 1..Len(calls) :
             (ret'.op = "settle" /\ (TimerFires(i) \/ CallbackSettles(i)))
             => /\ IsRemovalOf(calls', calls, i)
                /\ \A k \in 1..Len(calls') : calls'[k].url # calls[i].url
                /\ IF ret'.threw
                     THEN Len(ret'.error) = 1 /\ ret'.response = << >>
                     ELSE Len(ret'.response) = 1 /\ ret'.error = << >>
       ]_vars

\* the call to ping has just been rejected with the error its callback
\* threw while the call to users/7, made before it, still waits for its
\* slow callback
C37_Witness ==
  /\ ret.op = "settle"
  /\ ret.threw
  /\ ret.error = <<[kind |-> "thrown", ref |-> 4]>>
  /\ Len(calls) = 1
  /\ calls[1].url = UserSeven
  /\ calls[1].pc = "callback"

C39_NoOwnershipTracking ==
  [][configuration.autoReplaceFetch =>
       /\ (ret'.op = "unmockAllFetches" /\ UnmockAllFetches)
            => /\ ~isFetchReplaced'
               /\ fetchHandlers' = << >>
               /\ (fetchHandlers = << >> /\ isFetchReplaced) => globalFetch' # globalFetch
       /\ \A h \in RegistryHandlers :
            (ret'.op = "mockFetch" /\ ~ret'.threw /\ MockFetch(h))
            => /\ isFetchReplaced'
               /\ (fetchHandlers # << >> /\ ~isFetchReplaced) => globalFetch' # globalFetch
    ]_vars

\* a second handler has just been registered and the fetch is replaced
\* while autoReplaceFetch is true
C39_Witness ==
  /\ configuration.autoReplaceFetch
  /\ ret.op = "mockFetch"
  /\ ~ret.threw
  /\ Len(fetchHandlers) = 2
  /\ isFetchReplaced

====
